---- MODULE Spec2Model ----
(***************************************************************************)
(* The streaming JSON lexer of qobject/json-lexer.c as a state machine.    *)
(*                                                                         *)
(* A byte is a number 0..255, a lexer state the value of its enumerator,   *)
(* a token type the value of its JSONTokenType enumerator.  The lexer is   *)
(* the record  [state, start_state, token, x, y]  (the fields of           *)
(* JSONLexer); a callback is the record of the arguments one call of       *)
(* json_message_process_token() receives.                                  *)
(***************************************************************************)
EXTENDS Integers, Sequences, FiniteSets, TLC

VARIABLES
    lexer,      \* the JSONLexer: [state, start_state, token, x, y]
    op,         \* the last API call: [name, chunk]
    pre,        \* the lexer as it was when that call was entered
    steps,      \* one record per json_lexer_feed_char() run of that call
    emitted,    \* the callbacks that call delivered, in order
    input,      \* history (logged specification only): events fed so far
    log,        \* history (logged specification only): every callback so far
    env,        \* the CPURISCVState of linux-user/riscv/signal.c
    ts,         \* the process: alternate stack, signal mask, sigaction, forced signals
    mem,        \* guest memory: the signal frame and where it lies
    sigst       \* where the signal delivery stands, and the CPU as it was at entry

lexvars == <<lexer, op, pre, steps, emitted, input, log>>

sigvars == <<env, ts, mem, sigst>>

vars == <<lexer, op, pre, steps, emitted, input, log, env, ts, mem, sigst>>

(***************************************************************************)
(* Bounds of the model.                                                    *)
(***************************************************************************)
\* MAX_TOKEN_SIZE is (64ULL << 20) in the program; the model scales it down
\* so that a token can outgrow it within a few bytes.
MAX_TOKEN_SIZE == 3
\* Longest buffer one json_lexer_feed() call of a logged run is given.
MaxChunk == 2
\* Caps on the position counters x (column) and y (line).
MaxCol == 4
MaxLine == 1
\* Number of bytes fed in a logged run.
MaxInput == 4
\* Number of tokens of a written sequence.
MaxTokens == 2
\* The signal frames are scaled down: the width of abi_ulong, the size of
\* struct target_rt_sigframe and the offsets of its members info and uc.
TARGET_ABI_BITS == 8
sizeof_target_rt_sigframe == 16
offsetof_info == 4
offsetof_uc == 8
\* Number of registers or frame words the signal handler overwrites.
MaxHandlerWrites == 1

(***************************************************************************)
(* enum json_lexer_state                                                   *)
(***************************************************************************)
IN_ERROR == 0
IN_DQ_STRING_ESCAPE == 1
IN_DQ_STRING == 2
IN_SQ_STRING_ESCAPE == 3
IN_SQ_STRING == 4
IN_ZERO == 5
IN_EXP_DIGITS == 6
IN_EXP_SIGN == 7
IN_EXP_E == 8
IN_MANTISSA == 9
IN_MANTISSA_DIGITS == 10
IN_DIGITS == 11
IN_SIGN == 12
IN_KEYWORD == 13
IN_INTERP == 14
IN_WHITESPACE == 15
IN_START == 16
IN_START_INTERP == 17

\* The rows of json_lexer[][256]: its last designated row is IN_START_INTERP.
ARRAY_SIZE_json_lexer == IN_START_INTERP + 1

(***************************************************************************)
(* enum json_token_type (JSONTokenType).  The lexer relies only on         *)
(* JSON_MIN > IN_START_INTERP and on the enumerators being distinct.       *)
(***************************************************************************)
JSON_MIN == 100
JSON_LCURLY == JSON_MIN
JSON_RCURLY == JSON_MIN + 1
JSON_LSQUARE == JSON_MIN + 2
JSON_RSQUARE == JSON_MIN + 3
JSON_COLON == JSON_MIN + 4
JSON_COMMA == JSON_MIN + 5
JSON_INTEGER == JSON_MIN + 6
JSON_FLOAT == JSON_MIN + 7
JSON_KEYWORD == JSON_MIN + 8
JSON_STRING == JSON_MIN + 9
JSON_INTERP == JSON_MIN + 10
JSON_SKIP == JSON_MIN + 11
JSON_ERROR == JSON_MIN + 12
JSON_END_OF_INPUT == JSON_MIN + 13

JSONTokenType == JSON_MIN .. JSON_END_OF_INPUT

Byte == 0 .. 255

(***************************************************************************)
(* The transition table json_lexer[][256], row by row.  A row lists its    *)
(* designated initializers; a later initializer overrides an earlier one,  *)
(* and a cell no initializer names is 0, that is IN_ERROR.                 *)
(***************************************************************************)
\* #define TERMINAL(state) [0 ... 0x7F] = (state): the cells the macro sets.
TERMINAL(ch) == ch \in 0 .. 127

\* Mutant: a quote closes the string even after a backslash.
json_lexer_IN_DQ_STRING_ESCAPE_closes(ch) ==
    IF ch = 34 THEN JSON_STRING
    ELSE IF ch \in 32 .. 253 THEN IN_DQ_STRING
    ELSE IN_ERROR

json_lexer_IN_DQ_STRING_ESCAPE(ch) ==
    IF ch \in 32 .. 253 THEN IN_DQ_STRING                \* [0x20 ... 0xFD]
    ELSE IN_ERROR

\* Mutant: the range of accepted bytes runs to 0xFF.
json_lexer_IN_DQ_STRING_to_FF(ch) ==
    IF ch = 34 THEN JSON_STRING
    ELSE IF ch = 92 THEN IN_DQ_STRING_ESCAPE
    ELSE IF ch \in 32 .. 255 THEN IN_DQ_STRING
    ELSE IN_ERROR

json_lexer_IN_DQ_STRING(ch) ==
    IF ch = 34 THEN JSON_STRING                          \* ['"']
    ELSE IF ch = 92 THEN IN_DQ_STRING_ESCAPE             \* ['\\']
    ELSE IF ch \in 32 .. 253 THEN IN_DQ_STRING           \* [0x20 ... 0xFD]
    ELSE IN_ERROR

\* Mutant: the row accepts every byte from 0x20 up, 0xFE and 0xFF too.
json_lexer_IN_SQ_STRING_ESCAPE_to_FF(ch) ==
    IF ch \in 32 .. 255 THEN IN_SQ_STRING
    ELSE IN_ERROR

json_lexer_IN_SQ_STRING_ESCAPE(ch) ==
    IF ch \in 32 .. 253 THEN IN_SQ_STRING                \* [0x20 ... 0xFD]
    ELSE IN_ERROR

\* Mutant: either quote closes a single-quoted string.
json_lexer_IN_SQ_STRING_either(ch) ==
    IF ch = 39 \/ ch = 34 THEN JSON_STRING
    ELSE IF ch = 92 THEN IN_SQ_STRING_ESCAPE
    ELSE IF ch \in 32 .. 253 THEN IN_SQ_STRING
    ELSE IN_ERROR

json_lexer_IN_SQ_STRING(ch) ==
    IF ch = 39 THEN JSON_STRING                          \* ['\'']
    ELSE IF ch = 92 THEN IN_SQ_STRING_ESCAPE             \* ['\\']
    ELSE IF ch \in 32 .. 253 THEN IN_SQ_STRING           \* [0x20 ... 0xFD]
    ELSE IN_ERROR

\* Mutant: a digit after the leading zero carries on as an integer.
json_lexer_IN_ZERO_digits(ch) ==
    IF ch = 46 THEN IN_MANTISSA
    ELSE IF ch \in 48 .. 57 THEN IN_DIGITS
    ELSE IF TERMINAL(ch) THEN JSON_INTEGER
    ELSE IN_ERROR

json_lexer_IN_ZERO(ch) ==
    IF ch = 46 THEN IN_MANTISSA                          \* ['.']
    ELSE IF ch \in 48 .. 57 THEN IN_ERROR                \* ['0' ... '9']
    ELSE IF TERMINAL(ch) THEN JSON_INTEGER
    ELSE IN_ERROR

json_lexer_IN_EXP_DIGITS(ch) ==
    IF ch \in 48 .. 57 THEN IN_EXP_DIGITS                \* ['0' ... '9']
    ELSE IF TERMINAL(ch) THEN JSON_FLOAT
    ELSE IN_ERROR

json_lexer_IN_EXP_SIGN(ch) ==
    IF ch \in 48 .. 57 THEN IN_EXP_DIGITS                \* ['0' ... '9']
    ELSE IN_ERROR

\* Mutant: the row has TERMINAL(JSON_FLOAT) under its cells.
json_lexer_IN_EXP_E_terminal(ch) ==
    IF ch = 45 \/ ch = 43 THEN IN_EXP_SIGN
    ELSE IF ch \in 48 .. 57 THEN IN_EXP_DIGITS
    ELSE IF TERMINAL(ch) THEN JSON_FLOAT
    ELSE IN_ERROR

json_lexer_IN_EXP_E(ch) ==
    IF ch = 45 \/ ch = 43 THEN IN_EXP_SIGN               \* ['-'], ['+']
    ELSE IF ch \in 48 .. 57 THEN IN_EXP_DIGITS           \* ['0' ... '9']
    ELSE IN_ERROR

\* Mutant: the row is TERMINAL(JSON_INTEGER).
json_lexer_IN_MANTISSA_DIGITS_integer(ch) ==
    IF ch = 101 \/ ch = 69 THEN IN_EXP_E
    ELSE IF ch \in 48 .. 57 THEN IN_MANTISSA_DIGITS
    ELSE IF TERMINAL(ch) THEN JSON_INTEGER
    ELSE IN_ERROR

json_lexer_IN_MANTISSA_DIGITS(ch) ==
    IF ch = 101 \/ ch = 69 THEN IN_EXP_E                 \* ['e'], ['E']
    ELSE IF ch \in 48 .. 57 THEN IN_MANTISSA_DIGITS      \* ['0' ... '9']
    ELSE IF TERMINAL(ch) THEN JSON_FLOAT
    ELSE IN_ERROR

json_lexer_IN_MANTISSA(ch) ==
    IF ch \in 48 .. 57 THEN IN_MANTISSA_DIGITS           \* ['0' ... '9']
    ELSE IN_ERROR

json_lexer_IN_DIGITS(ch) ==
    IF ch = 46 THEN IN_MANTISSA                          \* ['.']
    ELSE IF ch = 101 \/ ch = 69 THEN IN_EXP_E            \* ['e'], ['E']
    ELSE IF ch \in 48 .. 57 THEN IN_DIGITS               \* ['0' ... '9']
    ELSE IF TERMINAL(ch) THEN JSON_INTEGER
    ELSE IN_ERROR

json_lexer_IN_SIGN(ch) ==
    IF ch = 48 THEN IN_ZERO                              \* ['0']
    ELSE IF ch \in 49 .. 57 THEN IN_DIGITS               \* ['1' ... '9']
    ELSE IN_ERROR

\* Mutant: digits continue a keyword as letters do.
json_lexer_IN_KEYWORD_digits(ch) ==
    IF ch \in 97 .. 122 \/ ch \in 48 .. 57 THEN IN_KEYWORD
    ELSE IF TERMINAL(ch) THEN JSON_KEYWORD
    ELSE IN_ERROR

json_lexer_IN_KEYWORD(ch) ==
    IF ch \in 97 .. 122 THEN IN_KEYWORD                  \* ['a' ... 'z']
    ELSE IF TERMINAL(ch) THEN JSON_KEYWORD
    ELSE IN_ERROR

json_lexer_IN_WHITESPACE(ch) ==
    IF ch \in {32, 9, 13, 10} THEN IN_WHITESPACE         \* ' ' \t \r \n
    ELSE IF TERMINAL(ch) THEN JSON_SKIP
    ELSE IN_ERROR

json_lexer_IN_INTERP(ch) ==
    IF ch \in 65 .. 90 THEN IN_INTERP                    \* ['A' ... 'Z']
    ELSE IF ch \in 97 .. 122 THEN IN_INTERP              \* ['a' ... 'z']
    ELSE IF ch \in 48 .. 57 THEN IN_INTERP               \* ['0' ... '9']
    ELSE IF TERMINAL(ch) THEN JSON_INTERP
    ELSE IN_ERROR

\* Mutant: the row shared by both start states has the '%' cell too.
json_lexer_IN_START_percent(ch) ==
    CASE ch = 37 -> IN_INTERP
      [] ch = 34 -> IN_DQ_STRING                         \* ['"']
      [] ch = 39 -> IN_SQ_STRING                         \* ['\'']
      [] ch = 48 -> IN_ZERO                              \* ['0']
      [] ch \in 49 .. 57 -> IN_DIGITS                    \* ['1' ... '9']
      [] ch = 45 -> IN_SIGN                              \* ['-']
      [] ch = 123 -> JSON_LCURLY                         \* ['{']
      [] ch = 125 -> JSON_RCURLY                         \* ['}']
      [] ch = 91 -> JSON_LSQUARE                         \* ['[']
      [] ch = 93 -> JSON_RSQUARE                         \* [']']
      [] ch = 44 -> JSON_COMMA                           \* [',']
      [] ch = 58 -> JSON_COLON                           \* [':']
      [] ch \in 97 .. 122 -> IN_KEYWORD                  \* ['a' ... 'z']
      [] ch \in {32, 9, 13, 10} -> IN_WHITESPACE         \* ' ' \t \r \n
      [] OTHER -> IN_ERROR

\* [IN_START ... IN_START_INTERP]: the cells the two start rows share.
json_lexer_IN_START(ch) ==
    CASE ch = 34 -> IN_DQ_STRING                         \* ['"']
      [] ch = 39 -> IN_SQ_STRING                         \* ['\'']
      [] ch = 48 -> IN_ZERO                              \* ['0']
      [] ch \in 49 .. 57 -> IN_DIGITS                    \* ['1' ... '9']
      [] ch = 45 -> IN_SIGN                              \* ['-']
      [] ch = 123 -> JSON_LCURLY                         \* ['{']
      [] ch = 125 -> JSON_RCURLY                         \* ['}']
      [] ch = 91 -> JSON_LSQUARE                         \* ['[']
      [] ch = 93 -> JSON_RSQUARE                         \* [']']
      [] ch = 44 -> JSON_COMMA                           \* [',']
      [] ch = 58 -> JSON_COLON                           \* [':']
      [] ch \in 97 .. 122 -> IN_KEYWORD                  \* ['a' ... 'z']
      [] ch \in {32, 9, 13, 10} -> IN_WHITESPACE         \* ' ' \t \r \n
      [] OTHER -> IN_ERROR

\* Mutant: the row of IN_START_INTERP differs on ',' too.
json_lexer_IN_START_INTERP_comma(ch) ==
    IF ch = 37 THEN IN_INTERP
    ELSE IF ch = 44 THEN JSON_COLON
    ELSE json_lexer_IN_START(ch)

\* [IN_START_INTERP]['%'] = IN_INTERP on top of the shared cells.
json_lexer_IN_START_INTERP(ch) ==
    IF ch = 37 THEN IN_INTERP
    ELSE json_lexer_IN_START(ch)

\* json_lexer[state][ch]; the row of IN_ERROR is never initialized: all 0.
json_lexer(state, ch) ==
    CASE state = IN_DQ_STRING_ESCAPE -> json_lexer_IN_DQ_STRING_ESCAPE(ch)
      [] state = IN_DQ_STRING -> json_lexer_IN_DQ_STRING(ch)
      [] state = IN_SQ_STRING_ESCAPE -> json_lexer_IN_SQ_STRING_ESCAPE(ch)
      [] state = IN_SQ_STRING -> json_lexer_IN_SQ_STRING(ch)
      [] state = IN_ZERO -> json_lexer_IN_ZERO(ch)
      [] state = IN_EXP_DIGITS -> json_lexer_IN_EXP_DIGITS(ch)
      [] state = IN_EXP_SIGN -> json_lexer_IN_EXP_SIGN(ch)
      [] state = IN_EXP_E -> json_lexer_IN_EXP_E(ch)
      [] state = IN_MANTISSA_DIGITS -> json_lexer_IN_MANTISSA_DIGITS(ch)
      [] state = IN_MANTISSA -> json_lexer_IN_MANTISSA(ch)
      [] state = IN_DIGITS -> json_lexer_IN_DIGITS(ch)
      [] state = IN_SIGN -> json_lexer_IN_SIGN(ch)
      [] state = IN_KEYWORD -> json_lexer_IN_KEYWORD(ch)
      [] state = IN_WHITESPACE -> json_lexer_IN_WHITESPACE(ch)
      [] state = IN_INTERP -> json_lexer_IN_INTERP(ch)
      [] state = IN_START -> json_lexer_IN_START(ch)
      [] state = IN_START_INTERP -> json_lexer_IN_START_INTERP(ch)
      [] OTHER -> IN_ERROR

\* Mutant: no transition is taken to have needed lookahead.
TERMINAL_NEEDED_LOOKAHEAD_never(old_state, terminal) == FALSE

\* Mutant: the macro without its test terminal != IN_ERROR.
TERMINAL_NEEDED_LOOKAHEAD_error(old_state, terminal) ==
    json_lexer(old_state, 0) = terminal

\* #define TERMINAL_NEEDED_LOOKAHEAD(old_state, terminal)
TERMINAL_NEEDED_LOOKAHEAD(old_state, terminal) ==
    terminal # IN_ERROR /\ json_lexer(old_state, 0) = terminal

(***************************************************************************)
(* The driver, json_lexer_feed_char().  A run of it is the record          *)
(*   [lexer, emitted, lookups, peak, returned]                             *)
(* lexer the JSONLexer so far, emitted the callbacks delivered so far,     *)
(* lookups the table lookups made so far, peak the greatest length the     *)
(* token buffer had, returned whether the function has returned from       *)
(* inside the loop.                                                        *)
(***************************************************************************)
Max(a, b) == IF a >= b THEN a ELSE b

\* json_message_process_token(lexer, input, type, x, y): the consumer, an
\* external collaborator; the model records the call's arguments.
json_message_process_token(out, token, type, x, y) ==
    Append(out, [type |-> type, text |-> token, x |-> x, y |-> y])

\* void json_lexer_init(JSONLexer *lexer, bool enable_interpolation)
json_lexer_init(enable_interpolation) ==
    LET start == IF enable_interpolation THEN IN_START_INTERP ELSE IN_START
    IN  [state |-> start, start_state |-> start, token |-> <<>>,
         x |-> 0, y |-> 0]

\* Mutant: the 0 byte a flush passes is not counted.
feed_char_position_skips_NUL(l, ch) ==
    IF ch = 0 THEN l
    ELSE IF ch = 10 THEN [l EXCEPT !.x = 0, !.y = l.y + 1]
    ELSE [l EXCEPT !.x = l.x + 1]

\* Mutant: a '\n' advances the line and the column goes on counting.
feed_char_position_no_reset(l, ch) ==
    IF ch = 10 THEN [l EXCEPT !.x = l.x + 1, !.y = l.y + 1]
    ELSE [l EXCEPT !.x = l.x + 1]

\* lexer->x++; if (ch == '\n') { lexer->x = 0; lexer->y++; }
feed_char_position(l, ch) ==
    IF ch = 10 THEN [l EXCEPT !.x = 0, !.y = l.y + 1]
    ELSE [l EXCEPT !.x = l.x + 1]

\* Mutant: a consumed byte is appended twice.
feed_char_append_twice(token, ch, char_consumed, flush) ==
    IF char_consumed /\ ~flush THEN Append(Append(token, ch), ch) ELSE token

\* Mutant: the append does not test flush.
feed_char_append_on_flush(token, ch, char_consumed, flush) ==
    IF char_consumed THEN Append(token, ch) ELSE token

\* if (char_consumed && !flush) g_string_append_c(lexer->token, ch);
feed_char_append(token, ch, char_consumed, flush) ==
    IF char_consumed /\ ~flush THEN Append(token, ch) ELSE token

\* The case labels that call json_message_process_token() with new_state.
feed_char_token_cases ==
    {JSON_LCURLY, JSON_RCURLY, JSON_LSQUARE, JSON_RSQUARE, JSON_COLON,
     JSON_COMMA, JSON_INTERP, JSON_INTEGER, JSON_FLOAT, JSON_KEYWORD,
     JSON_STRING}

\* Mutant: the token cases do not fall through into the truncate.
feed_char_case_token_keeps_token(r, new_state) ==
    [r EXCEPT
       !.emitted = json_message_process_token(r.emitted, r.lexer.token,
                                              new_state, r.lexer.x, r.lexer.y),
       !.lexer = [r.lexer EXCEPT !.state = r.lexer.start_state]]

\* Mutant: the token cases go back to IN_START, not to lexer->start_state.
feed_char_case_token_IN_START(r, new_state) ==
    [r EXCEPT
       !.emitted = json_message_process_token(r.emitted, r.lexer.token,
                                              new_state, r.lexer.x, r.lexer.y),
       !.lexer = [r.lexer EXCEPT !.token = <<>>, !.state = IN_START]]

\* Mutant: a token completed by a lookahead is reported with the column
\* before the lookahead byte was counted.
feed_char_case_token_own_column(r, new_state) ==
    [r EXCEPT
       !.emitted = json_message_process_token(r.emitted, r.lexer.token,
                       new_state,
                       IF r.lookups[Len(r.lookups)].char_consumed \/ r.lexer.x = 0
                         THEN r.lexer.x ELSE r.lexer.x - 1,
                       r.lexer.y),
       !.lexer = [r.lexer EXCEPT !.token = <<>>,
                                 !.state = r.lexer.start_state]]

\* case JSON_LCURLY ... case JSON_STRING: the callback, then the fall through
\* into case JSON_SKIP, then lexer->state = new_state after the switch.
feed_char_case_token(r, new_state) ==
    [r EXCEPT
       !.emitted = json_message_process_token(r.emitted, r.lexer.token,
                                              new_state, r.lexer.x, r.lexer.y),
       !.lexer = [r.lexer EXCEPT !.token = <<>>,
                                 !.state = r.lexer.start_state]]

\* Mutant: the skip case without new_state = lexer->start_state.
feed_char_case_skip_no_start(r) ==
    [r EXCEPT !.lexer = [r.lexer EXCEPT !.token = <<>>, !.state = JSON_SKIP]]

\* Mutant: the skip case does not truncate the token buffer.
feed_char_case_skip_keeps_token(r) ==
    [r EXCEPT !.lexer = [r.lexer EXCEPT !.state = r.lexer.start_state]]

\* case JSON_SKIP: truncate, new_state = lexer->start_state, break; then
\* lexer->state = new_state after the switch.
feed_char_case_skip(r) ==
    [r EXCEPT !.lexer = [r.lexer EXCEPT !.token = <<>>,
                                        !.state = r.lexer.start_state]]

\* Mutant: the error case does not truncate the token buffer.
feed_char_case_error_keeps_token(r) ==
    [r EXCEPT
       !.emitted = json_message_process_token(r.emitted, r.lexer.token,
                                              JSON_ERROR, r.lexer.x, r.lexer.y),
       !.lexer = [r.lexer EXCEPT !.state = r.lexer.start_state],
       !.returned = TRUE]

\* Mutant: the error case does not reset lexer->state.
feed_char_case_error_keeps_state(r) ==
    [r EXCEPT
       !.emitted = json_message_process_token(r.emitted, r.lexer.token,
                                              JSON_ERROR, r.lexer.x, r.lexer.y),
       !.lexer = [r.lexer EXCEPT !.token = <<>>],
       !.returned = TRUE]

\* case IN_ERROR: the JSON_ERROR callback, truncate, reset, return.
feed_char_case_error(r) ==
    [r EXCEPT
       !.emitted = json_message_process_token(r.emitted, r.lexer.token,
                                              JSON_ERROR, r.lexer.x, r.lexer.y),
       !.lexer = [r.lexer EXCEPT !.token = <<>>,
                                 !.state = r.lexer.start_state],
       !.returned = TRUE]

\* default: break; then lexer->state = new_state after the switch.
feed_char_case_default(r, new_state) ==
    [r EXCEPT !.lexer = [r.lexer EXCEPT !.state = new_state]]

\* The switch (new_state) with the assignment lexer->state = new_state
\* that follows it.
feed_char_switch(r, new_state) ==
    IF new_state \in feed_char_token_cases
      THEN feed_char_case_token(r, new_state)
    ELSE IF new_state = JSON_SKIP
      THEN feed_char_case_skip(r)
    ELSE IF new_state = IN_ERROR
      THEN feed_char_case_error(r)
    ELSE feed_char_case_default(r, new_state)

\* The run after a lookup and the append that may follow it.
feed_char_looked(r, ch, new_state, char_consumed, token) ==
    [r EXCEPT
       !.lexer = [r.lexer EXCEPT !.token = token],
       !.peak = Max(r.peak, Len(token)),
       !.lookups = Append(r.lookups,
                          [state |-> r.lexer.state, ch |-> ch,
                           new_state |-> new_state,
                           char_consumed |-> char_consumed])]

\* Mutant: the loop's condition does not test flush.
feed_char_again_on_flush(char_consumed, flush) == ~char_consumed

\* The condition of the do ... while.
feed_char_again(char_consumed, flush) == ~char_consumed /\ ~flush

\* The do { ... } while (!char_consumed && !flush) loop: _loop is one
\* iteration from the lookup on, _consume the iteration from char_consumed
\* on, _while the return from inside the switch or the loop's test.
RECURSIVE feed_char_loop(_, _, _)
feed_char_while(after, ch, flush, char_consumed) ==
    IF after.returned THEN after
    ELSE IF feed_char_again(char_consumed, flush)
      THEN feed_char_loop(after, ch, flush)
    ELSE after

feed_char_consume(r, ch, flush, new_state, char_consumed) ==
    feed_char_while(
        feed_char_switch(
            feed_char_looked(r, ch, new_state, char_consumed,
                             feed_char_append(r.lexer.token, ch,
                                              char_consumed, flush)),
            new_state),
        ch, flush, char_consumed)

feed_char_lookup(r, ch, flush, new_state) ==
    feed_char_consume(r, ch, flush, new_state,
                      ~TERMINAL_NEEDED_LOOKAHEAD(r.lexer.state, new_state))

feed_char_loop(r, ch, flush) ==
    feed_char_lookup(r, ch, flush, json_lexer(r.lexer.state, ch))

\* Mutant: the size check does not truncate the token.
feed_char_limit_no_truncate(r) ==
    IF Len(r.lexer.token) > MAX_TOKEN_SIZE
      THEN [r EXCEPT
              !.emitted = json_message_process_token(r.emitted, r.lexer.token,
                              r.lexer.state, r.lexer.x, r.lexer.y),
              !.lexer = [r.lexer EXCEPT !.state = r.lexer.start_state],
              !.limit = TRUE]
    ELSE r

\* Mutant: the size check does not reset lexer->state.
feed_char_limit_keeps_state(r) ==
    IF Len(r.lexer.token) > MAX_TOKEN_SIZE
      THEN [r EXCEPT
              !.emitted = json_message_process_token(r.emitted, r.lexer.token,
                              r.lexer.state, r.lexer.x, r.lexer.y),
              !.lexer = [r.lexer EXCEPT !.token = <<>>],
              !.limit = TRUE]
    ELSE r

\* if (lexer->token->len > MAX_TOKEN_SIZE) { callback with lexer->state;
\* truncate; lexer->state = lexer->start_state; }
feed_char_limit(r) ==
    IF Len(r.lexer.token) > MAX_TOKEN_SIZE
      THEN [r EXCEPT
              !.emitted = json_message_process_token(r.emitted, r.lexer.token,
                              r.lexer.state, r.lexer.x, r.lexer.y),
              !.lexer = [r.lexer EXCEPT !.token = <<>>,
                                        !.state = r.lexer.start_state],
              !.limit = TRUE]
    ELSE r

\* The run as json_lexer_feed_char() is entered: the position counters
\* advance before the loop.
feed_char_begin(l, ch) ==
    [lexer |-> feed_char_position(l, ch), emitted |-> <<>>,
     lookups |-> <<>>, peak |-> Len(l.token), returned |-> FALSE,
     limit |-> FALSE]

\* After the loop: the size check, unless the error case has returned.
feed_char_end(r) == IF r.returned THEN r ELSE feed_char_limit(r)

\* The step record of a run r of json_lexer_feed_char(l, ch, flush).
feed_char_step(l, ch, flush, r) ==
    [pre |-> l, ch |-> ch, flush |-> flush, lookups |-> r.lookups,
     emitted |-> r.emitted, peak |-> r.peak, returned |-> r.returned,
     limit |-> r.limit, post |-> r.lexer]

\* static void json_lexer_feed_char(JSONLexer *lexer, char ch, bool flush)
json_lexer_feed_char(l, ch, flush) ==
    feed_char_step(l, ch, flush,
                   feed_char_end(feed_char_loop(feed_char_begin(l, ch),
                                                ch, flush)))

(***************************************************************************)
(* The API calls.  The result of one is the record                         *)
(*   [lexer, steps, emitted]                                               *)
(* the JSONLexer it leaves, its json_lexer_feed_char() runs and the        *)
(* callbacks it delivered.                                                 *)
(***************************************************************************)
\* A call's result c after one more json_lexer_feed_char() run s.
feed_after(c, s) ==
    [lexer |-> s.post, steps |-> Append(c.steps, s),
     emitted |-> c.emitted \o s.emitted]

\* for (i = 0; i < size; i++) json_lexer_feed_char(lexer, buffer[i], false);
RECURSIVE json_lexer_feed_from(_, _, _)
json_lexer_feed_from(c, buffer, i) ==
    IF i > Len(buffer) THEN c
    ELSE json_lexer_feed_from(
             feed_after(c, json_lexer_feed_char(c.lexer, buffer[i], FALSE)),
             buffer, i + 1)

\* Mutant: the loop stops one byte short (i < size - 1).
json_lexer_feed_one_short(l, buffer) ==
    json_lexer_feed_from([lexer |-> l, steps |-> <<>>, emitted |-> <<>>],
                         SubSeq(buffer, 1, Len(buffer) - 1), 1)

\* void json_lexer_feed(JSONLexer *lexer, const char *buffer, size_t size)
json_lexer_feed(l, buffer) ==
    json_lexer_feed_from([lexer |-> l, steps |-> <<>>, emitted |-> <<>>],
                         buffer, 1)

\* json_message_process_token(lexer, lexer->token, JSON_END_OF_INPUT,
\*                            lexer->x, lexer->y) after the steps and
\* callbacks the flush has made so far.
flush_end_of_input(l, done, out) ==
    [lexer |-> l, steps |-> done,
     emitted |-> json_message_process_token(out, l.token, JSON_END_OF_INPUT,
                                            l.x, l.y)]

\* The flush once json_lexer_feed_char(lexer, 0, true) has made step s.
flush_fed(s) == flush_end_of_input(s.post, <<s>>, s.emitted)

\* Mutant: the flush delivers the end of input and leaves what is pending.
json_lexer_flush_no_feed(l) == flush_end_of_input(l, <<>>, <<>>)

\* Mutant: the end-of-input callback comes before the pending token is
\* resolved.
flush_fed_end_first(l, s) ==
    [lexer |-> s.post, steps |-> <<s>>,
     emitted |-> json_message_process_token(<<>>, l.token, JSON_END_OF_INPUT,
                                            l.x, l.y) \o s.emitted]

json_lexer_flush_end_first(l) ==
    IF l.state # l.start_state
      THEN flush_fed_end_first(l, json_lexer_feed_char(l, 0, TRUE))
    ELSE flush_end_of_input(l, <<>>, <<>>)

\* void json_lexer_flush(JSONLexer *lexer)
json_lexer_flush(l) ==
    IF l.state # l.start_state
      THEN flush_fed(json_lexer_feed_char(l, 0, TRUE))
    ELSE flush_end_of_input(l, <<>>, <<>>)

(***************************************************************************)
(* The signal frames of linux-user/riscv/signal.c.                         *)
(*                                                                         *)
(* The CPU is the record env of the fields of CPURISCVState that the file  *)
(* reads and writes: pc, gpr, fpr, fcsr (the frm and fflags the CSR is     *)
(* made of), vreg, vstart, vxsat, vxrm, vl, vtype and misa, the set of the *)
(* extensions enabled.  Guest memory holds at most one frame, the record   *)
(* [tramp, info, uc] of struct target_rt_sigframe, at the address it was   *)
(* written to; the rest of guest memory reads as zero.  Addresses and      *)
(* register values are abi_ulong, TARGET_ABI_BITS wide.                    *)
(***************************************************************************)
abi_ulong(n) == n % (2 ^ TARGET_ABI_BITS)

\* uint64_t vreg[32 * RV_VLEN_MAX / 64]
RV_VLEN_MAX == 256

vreg_elements == (32 * RV_VLEN_MAX) \div 64

\* #define RVV RV('V'), an extension bit of misa.
RVV == "V"

\* Register numbers of the RISC-V calling convention.
xRA == 1
xSP == 2
xA0 == 10
xA1 == 11
xA2 == 12

CSR_FCSR == 3
CSR_VSTART == 8
CSR_VXSAT == 9
CSR_VXRM == 10
CSR_VL == 3104
CSR_VTYPE == 3105

TARGET_SIGSEGV == 11
TARGET_SIGUSR1 == 10
TARGET_SIG_DFL == 0
SS_ONSTACK == 1
SS_DISABLE == 2
TARGET_SA_ONSTACK == "SA_ONSTACK"
TARGET_QEMU_ESIGRETURN == 513

\* riscv_csrrw() with no write mask, for the CSRs the file reads.
riscv_csr_read(e, csrno) ==
    CASE csrno = CSR_FCSR -> e.fcsr
      [] csrno = CSR_VSTART -> e.vstart
      [] csrno = CSR_VXSAT -> e.vxsat
      [] csrno = CSR_VXRM -> e.vxrm
      [] csrno = CSR_VL -> e.vl
      [] csrno = CSR_VTYPE -> e.vtype

\* riscv_csrrw() with a full write mask, for the CSRs the file writes.
riscv_csr_write(e, csrno, val) ==
    CASE csrno = CSR_FCSR -> [e EXCEPT !.fcsr = val]
      [] csrno = CSR_VSTART -> [e EXCEPT !.vstart = val]
      [] csrno = CSR_VXSAT -> [e EXCEPT !.vxsat = val]
      [] csrno = CSR_VXRM -> [e EXCEPT !.vxrm = val]
      [] csrno = CSR_VL -> [e EXCEPT !.vl = val]
      [] csrno = CSR_VTYPE -> [e EXCEPT !.vtype = val]

\* The CPU with every register zero, the given stack pointer and the
\* given extensions.
ResetEnv(sp, misa) ==
    [pc |-> 0,
     gpr |-> [i \in 0 .. 31 |-> IF i = xSP THEN sp ELSE 0],
     fpr |-> [i \in 0 .. 31 |-> 0],
     fcsr |-> 0,
     vreg |-> [i \in 0 .. vreg_elements - 1 |-> 0],
     vstart |-> 0, vxsat |-> 0, vxrm |-> 0, vl |-> 0, vtype |-> 0,
     misa |-> misa]

\* struct target_sigcontext, zero-filled.
ZeroSigcontext ==
    [pc |-> 0,
     gpr |-> [i \in 0 .. 30 |-> 0],
     fpr |-> [i \in 0 .. 31 |-> 0],
     fcsr |-> 0,
     v |-> [i \in 0 .. 31 |-> [lo |-> 0, hi |-> 0]],
     vstart |-> 0, vxsat |-> 0, vxrm |-> 0, vl |-> 0, vtype |-> 0]

\* struct target_rt_sigframe, zero-filled.
ZeroFrame ==
    [tramp |-> <<0, 0>>,
     info |-> 0,
     uc |-> [uc_flags |-> 0, uc_link |-> 0,
             uc_stack |-> [ss_sp |-> 0, ss_flags |-> 0, ss_size |-> 0],
             uc_sigmask |-> {},
             uc_mcontext |-> ZeroSigcontext]]

\* Guest memory: whether a frame has been written, where, and the frame.
NoFrame == [built |-> FALSE, addr |-> 0, frame |-> ZeroFrame]

\* The addresses the guest has mapped, and lock_user_struct(): whether
\* size bytes at addr lie within them.
GuestMapped == 32 .. 127

lock_user_struct(addr, size) ==
    /\ addr \in GuestMapped
    /\ addr + size - 1 \in GuestMapped

\* static inline int on_sig_stack(unsigned long sp)
on_sig_stack(t, sp) ==
    abi_ulong(sp - t.sigaltstack_used.ss_sp) < t.sigaltstack_used.ss_size

\* static inline int sas_ss_flags(unsigned long sp)
sas_ss_flags(t, sp) ==
    IF t.sigaltstack_used.ss_size = 0 THEN SS_DISABLE
    ELSE IF on_sig_stack(t, sp) THEN SS_ONSTACK
    ELSE 0

\* abi_ulong target_sigsp(abi_ulong sp, struct target_sigaction *ka)
target_sigsp(t, sp, k) ==
    IF TARGET_SA_ONSTACK \in k.sa_flags /\ sas_ss_flags(t, sp) = 0
      THEN abi_ulong(t.sigaltstack_used.ss_sp + t.sigaltstack_used.ss_size)
    ELSE sp

\* void target_save_altstack(target_stack_t *uss, CPUArchState *env)
target_save_altstack(t, e) ==
    [ss_sp |-> t.sigaltstack_used.ss_sp,
     ss_flags |-> sas_ss_flags(t, e.gpr[xSP]),
     ss_size |-> t.sigaltstack_used.ss_size]

\* abi_long target_restore_altstack(target_stack_t *uss, CPUArchState *env)
target_restore_altstack(t, uss) ==
    [t EXCEPT !.sigaltstack_used =
                 [ss_sp |-> uss.ss_sp, ss_size |-> uss.ss_size]]

get_sp_from_cpustate(regs) == regs.gpr[xSP]

\* sp &= ~3UL
get_sigframe_align(sp) == sp - (sp % 4)

\* static abi_ulong get_sigframe(struct target_sigaction *ka,
\*                               CPURISCVState *regs, size_t framesize)
get_sigframe_from(t, k, sp, framesize) ==
    IF on_sig_stack(t, sp) /\ ~on_sig_stack(t, abi_ulong(sp - framesize))
      THEN abi_ulong(-1)
    ELSE get_sigframe_align(abi_ulong(target_sigsp(t, sp, k) - framesize))

get_sigframe(t, k, regs, framesize) ==
    get_sigframe_from(t, k, get_sp_from_cpustate(regs), framesize)

\* The part of setup_sigcontext() under if (env->misa & RVV).
setup_sigcontext_vector(sc, e) ==
    [sc EXCEPT
       !.v = [i \in 0 .. 31 |->
                IF i % 2 = 0 THEN [lo |-> e.vreg[i], hi |-> e.vreg[i + 1]]
                ELSE sc.v[i]],
       !.vstart = riscv_csr_read(e, CSR_VSTART),
       !.vxsat = riscv_csr_read(e, CSR_VXSAT),
       !.vxrm = riscv_csr_read(e, CSR_VXRM),
       !.vl = riscv_csr_read(e, CSR_VL),
       !.vtype = riscv_csr_read(e, CSR_VTYPE)]

\* The part of setup_sigcontext() before it.
setup_sigcontext_base(sc, e) ==
    [sc EXCEPT
       !.pc = e.pc,
       !.gpr = [i \in 0 .. 30 |-> e.gpr[i + 1]],
       !.fpr = [i \in 0 .. 31 |-> e.fpr[i]],
       !.fcsr = riscv_csr_read(e, CSR_FCSR)]

\* static void setup_sigcontext(struct target_sigcontext *sc,
\*                              CPURISCVState *env)
setup_sigcontext(sc, e) ==
    IF RVV \in e.misa
      THEN setup_sigcontext_vector(setup_sigcontext_base(sc, e), e)
    ELSE setup_sigcontext_base(sc, e)

\* static void setup_ucontext(struct target_ucontext *uc,
\*                            CPURISCVState *env, target_sigset_t *set)
setup_ucontext(uc, t, e, set) ==
    [uc EXCEPT
       !.uc_flags = 0,
       !.uc_link = 0,
       !.uc_stack = target_save_altstack(t, e),
       !.uc_sigmask = set,
       !.uc_mcontext = setup_sigcontext(uc.uc_mcontext, e)]

\* li a7, 139 = __NR_rt_sigreturn; ecall
install_sigtramp == <<145754259, 115>>

\* The frame setup_rt_frame() writes at frame_addr.
setup_rt_frame_frame(frame, t, e, info, set) ==
    [frame EXCEPT
       !.uc = setup_ucontext(frame.uc, t, e, set),
       !.info = info,
       !.tramp = install_sigtramp]

\* The registers setup_rt_frame() sets to enter the handler.
setup_rt_frame_regs(e, sig, k, frame_addr) ==
    [e EXCEPT
       !.pc = k.sa_handler,
       !.gpr = [i \in 0 .. 31 |->
                  CASE i = xSP -> frame_addr
                    [] i = xA0 -> sig
                    [] i = xA1 -> abi_ulong(frame_addr + offsetof_info)
                    [] i = xA2 -> abi_ulong(frame_addr + offsetof_uc)
                    [] i = xRA -> frame_addr
                    [] OTHER -> e.gpr[i]]]

\* Mutant: badframe resets the handler whatever the signal.
setup_rt_frame_badframe_always(sig, k) ==
    [k EXCEPT !.sa_handler = TARGET_SIG_DFL]

\* badframe: of setup_rt_frame().
setup_rt_frame_badframe(sig, k) ==
    IF sig = TARGET_SIGSEGV THEN [k EXCEPT !.sa_handler = TARGET_SIG_DFL]
    ELSE k

\* The part of restore_sigcontext() under if (env->misa & RVV).
restore_sigcontext_csrs(e, sc) ==
    riscv_csr_write(
      riscv_csr_write(
        riscv_csr_write(
          riscv_csr_write(
            riscv_csr_write(e, CSR_VSTART, sc.vstart),
            CSR_VXSAT, sc.vxsat),
          CSR_VXRM, sc.vxrm),
        CSR_VL, sc.vl),
      CSR_VTYPE, sc.vtype)

restore_sigcontext_vector(e, sc) ==
    restore_sigcontext_csrs(
      [e EXCEPT
         !.vreg = [j \in 0 .. vreg_elements - 1 |->
                     IF j >= 32 THEN e.vreg[j]
                     ELSE IF j % 2 = 0 THEN sc.v[j].lo
                     ELSE sc.v[j - 1].hi]],
      sc)

\* The part of restore_sigcontext() before it.
restore_sigcontext_base(e, sc) ==
    riscv_csr_write(
      [e EXCEPT
         !.pc = sc.pc,
         !.gpr = [i \in 0 .. 31 |-> IF i = 0 THEN e.gpr[0] ELSE sc.gpr[i - 1]],
         !.fpr = [i \in 0 .. 31 |-> sc.fpr[i]]],
      CSR_FCSR, sc.fcsr)

\* static void restore_sigcontext(CPURISCVState *env,
\*                                struct target_sigcontext *sc)
restore_sigcontext_from(e, sc) ==
    IF RVV \in e.misa THEN restore_sigcontext_vector(e, sc) ELSE e

restore_sigcontext(e, sc) ==
    restore_sigcontext_from(restore_sigcontext_base(e, sc), sc)

\* The process and the delivery before any signal: no alternate stack, an
\* empty signal mask, a handler installed.
IdleTask(alt) ==
    [sigaltstack_used |-> alt,
     signal_mask |-> {},
     ka |-> [sa_handler |-> 64,
             sa_flags |-> IF alt.ss_size > 0 THEN {TARGET_SA_ONSTACK} ELSE {}],
     forced |-> <<>>]

IdleDelivery(e) ==
    [phase |-> "user", sig |-> 0, entry |-> e, built |-> ZeroFrame,
     writes |-> 0, ret |-> 0]

NoAltStack == [ss_sp |-> 0, ss_size |-> 0]

SignalIdle ==
    /\ env = ResetEnv(0, {})
    /\ ts = IdleTask(NoAltStack)
    /\ mem = NoFrame
    /\ sigst = IdleDelivery(env)

(***************************************************************************)
(* The state machine.                                                      *)
(***************************************************************************)
\* Bytes fed one at a time:  "  '  ,  -  0  1  .  e  \  space  \n  %  0xFF
InputBytes == {34, 39, 44, 45, 48, 49, 46, 101, 92, 32, 10, 37, 255}

\* Bytes of the buffers of a logged run:  "  ,  0  space  \n  0xFF
LoggedBytes == {34, 44, 48, 32, 10, 255}

RECURSIVE SeqsUpTo(_, _)
SeqsUpTo(S, n) ==
    IF n = 0 THEN {<<>>}
    ELSE LET shorter == SeqsUpTo(S, n - 1)
         IN  shorter \cup {Append(q, b) :
                             q \in {t \in shorter : Len(t) = n - 1}, b \in S}

Chunks == SeqsUpTo(LoggedBytes, MaxChunk)

InRange(l) == l.x <= MaxCol /\ l.y <= MaxLine

Init ==
    /\ \E enable_interpolation \in BOOLEAN :
          lexer = json_lexer_init(enable_interpolation)
    /\ op = [name |-> "init", chunk |-> <<>>]
    /\ pre = lexer
    /\ steps = <<>>
    /\ emitted = <<>>
    /\ input = <<>>
    /\ log = <<>>
    /\ SignalIdle

\* An API call with result c: the lexer it leaves and what it did.
Call(name, chunk, c) ==
    /\ lexer' = c.lexer
    /\ op' = [name |-> name, chunk |-> chunk]
    /\ pre' = lexer
    /\ steps' = c.steps
    /\ emitted' = c.emitted
    /\ UNCHANGED sigvars

\* A call with result c under the caps on the position counters.
Capped(name, chunk, c) ==
    /\ InRange(c.lexer)
    /\ Call(name, chunk, c)

\* json_lexer_feed(lexer, &ch, 1)
Feed(ch) ==
    /\ Capped("feed", <<ch>>, json_lexer_feed(lexer, <<ch>>))
    /\ UNCHANGED <<input, log>>

\* json_lexer_flush(lexer)
Flush ==
    /\ Capped("flush", <<>>, json_lexer_flush(lexer))
    /\ UNCHANGED <<input, log>>

Next ==
    \/ \E ch \in InputBytes : Feed(ch)
    \/ Flush

Spec == Init /\ [][Next]_vars

\* The logged run: json_lexer_feed(lexer, chunk, Len(chunk)) on buffers of
\* any length up to MaxChunk, with the bytes fed and the callbacks
\* delivered since json_lexer_init() kept.
Logged(name, chunk, c) ==
    /\ Call(name, chunk, c)
    /\ input' = input \o chunk
    /\ log' = log \o c.emitted

LoggedFeed(chunk) ==
    /\ Len(input) + Len(chunk) <= MaxInput
    /\ Logged("feed", chunk, json_lexer_feed(lexer, chunk))

NextLogged == \E chunk \in Chunks : LoggedFeed(chunk)

SpecLogged == Init /\ [][NextLogged]_vars

\* json_lexer_flush(lexer) ending a logged run.
LoggedFlush ==
    /\ op.name # "flush"
    /\ Logged("flush", <<>>, json_lexer_flush(lexer))

\* Bytes of the logged runs of numbers:  -  +  0  1  .  e  E  ,
NumberBytes == {45, 43, 48, 49, 46, 101, 69, 44}

\* A logged run fed byte by byte from NumberBytes and ended by a flush.
NumberFeed(ch) ==
    /\ op.name # "flush"
    /\ LoggedFeed(<<ch>>)

NextNumbers ==
    \/ \E ch \in NumberBytes : NumberFeed(ch)
    \/ LoggedFlush

SpecNumbers == Init /\ [][NextNumbers]_vars

(***************************************************************************)
(* Token sequences written out and lexed again.  A token is its tag and    *)
(* its text; a sequence of at most MaxTokens of them is written with one   *)
(* run of whitespace between consecutive tokens, fed in one                *)
(* json_lexer_feed() call and flushed.                                     *)
(***************************************************************************)
Token(type, text) == [type |-> type, text |-> text]

\* { } [ ] : ,
StructuralTokens ==
    {Token(JSON_LCURLY, <<123>>), Token(JSON_RCURLY, <<125>>),
     Token(JSON_LSQUARE, <<91>>), Token(JSON_RSQUARE, <<93>>),
     Token(JSON_COLON, <<58>>), Token(JSON_COMMA, <<44>>)}

\* ""  '"'  "\""  " "
StringTokens ==
    {Token(JSON_STRING, <<34, 34>>), Token(JSON_STRING, <<39, 34, 39>>),
     Token(JSON_STRING, <<34, 92, 34, 34>>), Token(JSON_STRING, <<34, 32, 34>>)}

\* 0  -1  10  1.5  1e1  0e0
NumberTokens ==
    {Token(JSON_INTEGER, <<48>>), Token(JSON_INTEGER, <<45, 49>>),
     Token(JSON_INTEGER, <<49, 48>>), Token(JSON_FLOAT, <<49, 46, 53>>),
     Token(JSON_FLOAT, <<49, 101, 49>>), Token(JSON_FLOAT, <<48, 101, 48>>)}

\* a  abc
KeywordTokens ==
    {Token(JSON_KEYWORD, <<97>>), Token(JSON_KEYWORD, <<97, 98, 99>>)}

\* %  %d
InterpTokens ==
    {Token(JSON_INTERP, <<37>>), Token(JSON_INTERP, <<37, 100>>)}

ValidTokens ==
    StructuralTokens \cup StringTokens \cup NumberTokens \cup KeywordTokens
        \cup InterpTokens

\* The runs of whitespace written between two tokens: a space, a tab and
\* a newline, and MAX_TOKEN_SIZE + 1 spaces.
Separators == {<<32>>, <<9, 10>>, [i \in 1 .. MAX_TOKEN_SIZE + 1 |-> 32]}

RECURSIVE WrittenFrom(_, _, _)
WrittenFrom(tokens, sep, i) ==
    IF i > Len(tokens) THEN <<>>
    ELSE IF i = Len(tokens) THEN tokens[i].text
    ELSE tokens[i].text \o sep \o WrittenFrom(tokens, sep, i + 1)

\* Every token sequence with a separator and the text they are written as.
AllWritten ==
    {[tokens |-> t, sep |-> sep, text |-> WrittenFrom(t, sep, 1)] :
        t \in SeqsUpTo(ValidTokens, MaxTokens), sep \in Separators}

WrittenFeed(text) ==
    /\ op.name = "init"
    /\ Logged("feed", text, json_lexer_feed(lexer, text))

NextWritten ==
    \/ \E w \in AllWritten : WrittenFeed(w.text)
    \/ LoggedFlush

SpecWritten == Init /\ [][NextWritten]_vars

(***************************************************************************)
(* Every byte against every row.  A run of this specification takes the    *)
(* lexer into a row of the table by one json_lexer_feed() call on a short  *)
(* prefix, then feeds it any byte 0 .. 255, and may flush.                 *)
(***************************************************************************)
\* A double-quoted string one byte short of filling the token buffer.
FullString == [i \in 1 .. MAX_TOKEN_SIZE |-> IF i = 1 THEN 34 ELSE 32]

\* Nothing, and:  "  "\  '  '\  0  1  -  1.  1.5  1e  1e+  1e1  a  space  %
Prefixes ==
    {<<>>, <<34>>, <<34, 92>>, <<39>>, <<39, 92>>, <<48>>, <<49>>, <<45>>,
     <<49, 46>>, <<49, 46, 53>>, <<49, 101>>, <<49, 101, 43>>,
     <<49, 101, 49>>, <<97>>, <<32>>, <<37>>, FullString}

Prepare(prefix) ==
    /\ op.name = "init"
    /\ prefix # <<>>
    /\ Logged("feed", prefix, json_lexer_feed(lexer, prefix))

ByteFeed(ch) ==
    /\ op.name # "flush"
    /\ input \in Prefixes
    /\ Logged("feed", <<ch>>, json_lexer_feed(lexer, <<ch>>))

NextBytes ==
    \/ \E prefix \in Prefixes : Prepare(prefix)
    \/ \E ch \in Byte : ByteFeed(ch)
    \/ LoggedFlush

SpecBytes == Init /\ [][NextBytes]_vars

(***************************************************************************)
(* The same calls made on two lexers.  A run of this specification logs    *)
(* its calls as events, a byte for json_lexer_feed(lexer, &ch, 1) and      *)
(* FlushEvent for json_lexer_flush(lexer), so that they can be made again  *)
(* on a lexer initialised otherwise.                                       *)
(***************************************************************************)
\* The event of a json_lexer_flush() call: a value that is no byte.
FlushEvent == 256

\* Bytes of the events:  %  1  a  ,  "  space
EventBytes == {37, 49, 97, 44, 34, 32}

\* The call an event stands for, made on lexer l.
EventCall(l, event) ==
    IF event = FlushEvent THEN json_lexer_flush(l)
    ELSE json_lexer_feed(l, <<event>>)

\* The lexer and the callbacks after the events from the i-th on, made on
\* the lexer of c after the callbacks of c.
RECURSIVE Replay(_, _, _)
ReplayNext(c, d, events, i) ==
    Replay([lexer |-> d.lexer, log |-> c.log \o d.emitted], events, i + 1)

Replay(c, events, i) ==
    IF i > Len(events) THEN c
    ELSE ReplayNext(c, EventCall(c.lexer, events[i]), events, i)

Event(name, event, c) ==
    /\ Len(input) < MaxInput
    /\ Call(name, IF event = FlushEvent THEN <<>> ELSE <<event>>, c)
    /\ input' = Append(input, event)
    /\ log' = log \o c.emitted

EventFeed(ch) == Event("feed", ch, json_lexer_feed(lexer, <<ch>>))

EventFlush == Event("flush", FlushEvent, json_lexer_flush(lexer))

NextEvents ==
    \/ \E ch \in EventBytes : EventFeed(ch)
    \/ EventFlush

SpecEvents == Init /\ [][NextEvents]_vars

(***************************************************************************)
(* The delivery of one signal: setup_rt_frame(), the handler, and          *)
(* do_rt_sigreturn().  The CPU at entry has every register zero but one;   *)
(* the handler overwrites up to MaxHandlerWrites registers, or words of    *)
(* the frame, before it returns through the trampoline.                    *)
(***************************************************************************)
\* The registers the interrupted code and the handler write, and the word
\* of the frame that holds the saved pc.
Registers ==
    {[file |-> "pc", i |-> 0], [file |-> "fcsr", i |-> 0],
     [file |-> "vstart", i |-> 0], [file |-> "vxsat", i |-> 0],
     [file |-> "vxrm", i |-> 0], [file |-> "vl", i |-> 0],
     [file |-> "vtype", i |-> 0]}
    \cup {[file |-> "gpr", i |-> i] : i \in {xRA, xSP, xA0, 31}}
    \cup {[file |-> "fpr", i |-> i] : i \in {0, 31}}
    \cup {[file |-> "vreg", i |-> i] : i \in {0, 31, 32, vreg_elements - 1}}

\* A value other than the one held: 1 for 0, and 0 for anything else.
Other(val) == IF val = 0 THEN 1 ELSE 0

\* The CPU after a write of another value to a register.
Overwrite(e, r) ==
    CASE r.file = "pc" -> [e EXCEPT !.pc = Other(@)]
      [] r.file = "fcsr" -> [e EXCEPT !.fcsr = Other(@)]
      [] r.file = "vstart" -> [e EXCEPT !.vstart = Other(@)]
      [] r.file = "vxsat" -> [e EXCEPT !.vxsat = Other(@)]
      [] r.file = "vxrm" -> [e EXCEPT !.vxrm = Other(@)]
      [] r.file = "vl" -> [e EXCEPT !.vl = Other(@)]
      [] r.file = "vtype" -> [e EXCEPT !.vtype = Other(@)]
      [] r.file = "gpr" -> [e EXCEPT !.gpr[r.i] = Other(@)]
      [] r.file = "fpr" -> [e EXCEPT !.fpr[r.i] = Other(@)]
      [] r.file = "vreg" -> [e EXCEPT !.vreg[r.i] = Other(@)]

LexerIdle ==
    /\ lexer = json_lexer_init(FALSE)
    /\ op = [name |-> "init", chunk |-> <<>>]
    /\ pre = lexer
    /\ steps = <<>>
    /\ emitted = <<>>
    /\ input = <<>>
    /\ log = <<>>

\* The CPU states signals are delivered in.
EntryStates ==
    {ResetEnv(sp, misa) : sp \in {128, 60, 40}, misa \in {{}, {RVV}}}

InitSignal ==
    /\ LexerIdle
    /\ \E e \in EntryStates :
          env \in {e} \cup {Overwrite(e, r) : r \in Registers}
    /\ \E alt \in {NoAltStack, [ss_sp |-> 32, ss_size |-> 32]} :
          ts = IdleTask(alt)
    /\ mem = NoFrame
    /\ sigst = IdleDelivery(env)

\* force_sig(TARGET_SIGSEGV)
force_sig(t, sig) == [t EXCEPT !.forced = Append(@, sig)]

\* void setup_rt_frame(int sig, struct target_sigaction *ka,
\*                     target_siginfo_t *info, target_sigset_t *set,
\*                     CPURISCVState *env)
\* with info the siginfo of sig and set the task's signal mask.
setup_rt_frame(sig, frame_addr) ==
    IF lock_user_struct(frame_addr, sizeof_target_rt_sigframe)
      THEN /\ mem' = [built |-> TRUE, addr |-> frame_addr,
                      frame |-> setup_rt_frame_frame(ZeroFrame, ts, env, sig,
                                                     ts.signal_mask)]
           /\ env' = setup_rt_frame_regs(env, sig, ts.ka, frame_addr)
           /\ sigst' = [sigst EXCEPT !.phase = "handler", !.sig = sig,
                                     !.entry = env, !.built = mem'.frame]
           /\ UNCHANGED ts
    ELSE /\ ts' = force_sig([ts EXCEPT !.ka = setup_rt_frame_badframe(sig, @)],
                            TARGET_SIGSEGV)
         /\ sigst' = [sigst EXCEPT !.phase = "killed", !.sig = sig,
                                   !.entry = env]
         /\ UNCHANGED <<env, mem>>

SetupRtFrame(sig) ==
    /\ sigst.phase = "user"
    /\ setup_rt_frame(sig, get_sigframe(ts, ts.ka, env, sizeof_target_rt_sigframe))
    /\ UNCHANGED lexvars

\* The handler overwrites a register.
HandlerWrite(r) ==
    /\ sigst.phase = "handler"
    /\ sigst.writes < MaxHandlerWrites
    /\ env' = Overwrite(env, r)
    /\ sigst' = [sigst EXCEPT !.writes = @ + 1]
    /\ UNCHANGED <<ts, mem, lexvars>>

\* The handler overwrites the saved pc in the frame.
HandlerStore ==
    /\ sigst.phase = "handler"
    /\ sigst.writes < MaxHandlerWrites
    /\ mem' = [mem EXCEPT !.frame.uc.uc_mcontext.pc = Other(@)]
    /\ sigst' = [sigst EXCEPT !.writes = @ + 1]
    /\ UNCHANGED <<env, ts, lexvars>>

\* The frame guest memory holds at an address.
frame_at(addr) == IF mem.built /\ mem.addr = addr THEN mem.frame ELSE ZeroFrame

\* static void restore_ucontext(CPURISCVState *env,
\*                              struct target_ucontext *uc)
\* and target_restore_altstack(&frame->uc.uc_stack, env) after it.
restore_ucontext(uc) ==
    /\ ts' = target_restore_altstack([ts EXCEPT !.signal_mask = uc.uc_sigmask],
                                     uc.uc_stack)
    /\ env' = restore_sigcontext(env, uc.uc_mcontext)

\* long do_rt_sigreturn(CPURISCVState *env)
do_rt_sigreturn(frame_addr) ==
    IF lock_user_struct(frame_addr, sizeof_target_rt_sigframe)
      THEN /\ restore_ucontext(frame_at(frame_addr).uc)
           /\ sigst' = [sigst EXCEPT !.phase = "returned",
                                     !.ret = -TARGET_QEMU_ESIGRETURN]
    ELSE /\ ts' = force_sig(ts, TARGET_SIGSEGV)
         /\ sigst' = [sigst EXCEPT !.phase = "killed", !.ret = 0]
         /\ UNCHANGED env

DoRtSigreturn ==
    /\ sigst.phase = "handler"
    /\ do_rt_sigreturn(env.gpr[xSP])
    /\ UNCHANGED <<mem, lexvars>>

NextSignal ==
    \/ \E sig \in {TARGET_SIGSEGV, TARGET_SIGUSR1} : SetupRtFrame(sig)
    \/ \E r \in Registers : HandlerWrite(r)
    \/ HandlerStore
    \/ DoRtSigreturn

SpecSignal == InitSignal /\ [][NextSignal]_vars

(***************************************************************************)
(* Vocabulary of the properties.                                           *)
(***************************************************************************)
\* The tag and the text of each callback of a sequence of callbacks.
TagText(out) == [i \in DOMAIN out |-> <<out[i].type, out[i].text>>]

\* The callbacks of a sequence that carry the given tag.
WithTag(out, type) == {i \in DOMAIN out : out[i].type = type}

\* The rows the table fills with TERMINAL(), and the tag each completes.
LookaheadRows ==
    {IN_ZERO, IN_DIGITS, IN_MANTISSA_DIGITS, IN_EXP_DIGITS, IN_KEYWORD,
     IN_INTERP, IN_WHITESPACE}

RowTag(state) ==
    CASE state \in {IN_ZERO, IN_DIGITS} -> JSON_INTEGER
      [] state \in {IN_MANTISSA_DIGITS, IN_EXP_DIGITS} -> JSON_FLOAT
      [] state = IN_KEYWORD -> JSON_KEYWORD
      [] state = IN_INTERP -> JSON_INTERP
      [] state = IN_WHITESPACE -> JSON_SKIP
      [] OTHER -> JSON_ERROR

\* The tags the consumer is defined to receive.
DeliveredTags == JSONTokenType \ {JSON_SKIP}

\* The lexer as json_lexer_init() makes it, with the same start state.
Fresh(l) == json_lexer_init(l.start_state = IN_START_INTERP)

\* A lexer with its position counters set aside.
NoPosition(l) == [l EXCEPT !.x = 0, !.y = 0]

\* A step in which a byte fed in a TERMINAL() row met the row's default.
IsLookahead(s) ==
    /\ ~s.flush
    /\ s.pre.state \in LookaheadRows
    /\ s.lookups[1].new_state = RowTag(s.pre.state)

(***************************************************************************)
(* C1  Lookahead correctness.  Whenever a byte fed in a terminal-by-       *)
(* default state meets that row's default terminal entry, the token        *)
(* completed has as text exactly the bytes accumulated before that byte    *)
(* (WHITESPACE completes a skip, which delivers nothing), and the same     *)
(* byte is looked up once more, against start_state, in the same           *)
(* json_lexer_feed_char() run.  "0" then "," delivers integer "0" and then *)
(* comma ",".                                                              *)
(***************************************************************************)
C1_Lookahead ==
    \A i \in DOMAIN steps :
       LET s == steps[i] IN
       /\ IsLookahead(s) =>
            /\ Len(s.lookups) >= 2
            /\ ~s.lookups[1].char_consumed
            /\ s.lookups[2].state = s.pre.start_state
            /\ s.lookups[2].ch = s.ch
            /\ IF s.pre.state = IN_WHITESPACE
                 THEN \A k \in DOMAIN s.emitted :
                         /\ s.emitted[k].type # JSON_SKIP
                         /\ s.emitted[k].text = <<s.ch>>
               ELSE /\ s.emitted # <<>>
                    /\ s.emitted[1].type = RowTag(s.pre.state)
                    /\ s.emitted[1].text = s.pre.token
            /\ s.post.token \in {<<>>, <<s.ch>>}
       /\ (~s.flush /\ s.pre.state = IN_ZERO /\ s.pre.token = <<48>> /\ s.ch = 44) =>
            TagText(s.emitted) = << <<JSON_INTEGER, <<48>> >>, <<JSON_COMMA, <<44>> >> >>

C1_Witness ==
    /\ op.name = "feed"
    /\ Len(steps) = 1
    /\ steps[1].pre.state = IN_ZERO
    /\ steps[1].pre.token = <<48>>
    /\ steps[1].ch = 44
    /\ Len(steps[1].lookups) = 2
    /\ TagText(emitted) = << <<JSON_INTEGER, <<48>> >>, <<JSON_COMMA, <<44>> >> >>

RECURSIVE OneByOne(_, _, _)
OneByOne(c, bytes, i) ==
    IF i > Len(bytes) THEN c
    ELSE LET d == json_lexer_feed(c.lexer, <<bytes[i]>>)
         IN  OneByOne([lexer |-> d.lexer, log |-> c.log \o d.emitted],
                      bytes, i + 1)

AllAtOnce(l, bytes) ==
    LET d == json_lexer_feed(l, bytes)
    IN  [lexer |-> d.lexer, log |-> d.emitted]

(***************************************************************************)
(* C2  Chunk-size invariance.  However the bytes fed so far were split     *)
(* into json_lexer_feed() calls, the callbacks delivered (tag, text,       *)
(* column, line) and the lexer reached are those of feeding the same bytes *)
(* one per call, and those of feeding them in a single call.               *)
(***************************************************************************)
C2_ChunkInvariance ==
    LET here == [lexer |-> lexer, log |-> log]
    IN  /\ here = OneByOne([lexer |-> Fresh(lexer), log |-> <<>>], input, 1)
        /\ here = AllAtOnce(Fresh(lexer), input)

\* "0," fed as one buffer, after two bytes fed before it.
C2_Witness ==
    /\ Len(input) = MaxInput
    /\ op.name = "feed"
    /\ op.chunk = <<48, 44>>
    /\ Len(log) >= 2
    /\ log[Len(log)].type = JSON_COMMA

HasErrorLookup(s) ==
    \E k \in DOMAIN s.lookups : s.lookups[k].new_state = IN_ERROR

(***************************************************************************)
(* C3  Error recovery.  Whenever a lookup yields ERROR, during a feed or a *)
(* flush, that json_lexer_feed_char() run delivers exactly one error-      *)
(* tagged token and returns with state = start_state and an empty token    *)
(* buffer; and from the state the lexer is in, some byte still produces a  *)
(* token.                                                                  *)
(***************************************************************************)
C3_ErrorRecovery ==
    /\ \A i \in DOMAIN steps :
          LET s == steps[i] IN
          HasErrorLookup(s) =>
            /\ Cardinality(WithTag(s.emitted, JSON_ERROR)) = 1
            /\ s.post.state = s.post.start_state
            /\ s.post.token = <<>>
    /\ \E ch \in InputBytes :
          json_lexer_feed_char(lexer, ch, FALSE).emitted # <<>>

\* "1e" flushed: the error comes from the flush's lookup.
C3_Witness ==
    /\ op.name = "flush"
    /\ pre.token = <<49, 101>>
    /\ Len(steps) = 1
    /\ HasErrorLookup(steps[1])
    /\ TagText(emitted) = << <<JSON_ERROR, <<49, 101>> >>,
                             <<JSON_END_OF_INPUT, <<>> >> >>
    /\ lexer.state = lexer.start_state

Resynchronised(s) ==
    /\ WithTag(s.emitted, JSON_ERROR) # {}
    /\ s.post.state = s.pre.start_state
    /\ s.post.token = <<>>

(***************************************************************************)
(* C4  Resynchronisation byte.  From every reachable lexer state, feeding  *)
(* the byte 0xFF delivers an error token during that                       *)
(* json_lexer_feed_char() run and leaves state = start_state with an empty *)
(* token buffer.                                                           *)
(***************************************************************************)
C4_Resync ==
    /\ Resynchronised(json_lexer_feed_char(lexer, 255, FALSE))
    /\ \A i \in DOMAIN steps :
          (steps[i].ch = 255 /\ ~steps[i].flush) => Resynchronised(steps[i])

\* 0xFF fed right after the backslash of a double-quoted string.
C4_Witness ==
    /\ op.name = "feed"
    /\ op.chunk = <<255>>
    /\ pre.state = IN_DQ_STRING_ESCAPE
    /\ WithTag(emitted, JSON_ERROR) # {}
    /\ lexer.state = lexer.start_state
    /\ lexer.token = <<>>

WhitespaceBytes == {32, 9, 13, 10}

\* Whether sequence p is a prefix of sequence t.
IsPrefix(p, t) == Len(p) <= Len(t) /\ SubSeq(t, 1, Len(p)) = p

(***************************************************************************)
(* C5  Whitespace is never forwarded.  No callback carries the skip tag,   *)
(* no callback carries text that was accumulated in the WHITESPACE state,  *)
(* and a whitespace byte fed at start or amid a whitespace run produces no *)
(* callback at all.                                                        *)
(***************************************************************************)
C5_WhitespaceNotForwarded ==
    /\ \A k \in DOMAIN emitted : emitted[k].type # JSON_SKIP
    /\ \A i \in DOMAIN steps :
          LET s == steps[i] IN
          /\ (s.pre.state = IN_WHITESPACE) =>
                \A k \in DOMAIN s.emitted : ~IsPrefix(s.pre.token, s.emitted[k].text)
          /\ (/\ ~s.flush
              /\ s.ch \in WhitespaceBytes
              /\ s.pre.state \in {s.pre.start_state, IN_WHITESPACE}) =>
                s.emitted = <<>>

ErrorOnFlush ==
    {IN_DQ_STRING, IN_DQ_STRING_ESCAPE, IN_SQ_STRING, IN_SQ_STRING_ESCAPE,
     IN_SIGN, IN_MANTISSA, IN_EXP_E, IN_EXP_SIGN}

(***************************************************************************)
(* C6  Truncated input.  A flush that finds state # start_state resolves   *)
(* the pending token without appending the sentinel: an integer token in   *)
(* ZERO and DIGITS, a float token in MANTISSA_DIGITS and EXP_DIGITS, a     *)
(* keyword token in KEYWORD, an interpolation token in INTERP, each with   *)
(* the buffer as it was before the flush as text; nothing in WHITESPACE;   *)
(* an error token carrying the pending buffer in every other state (the    *)
(* four string states, SIGN, MANTISSA, EXP_E, EXP_SIGN).  The end-of-input *)
(* token follows.                                                          *)
(***************************************************************************)
C6_TruncatedInput ==
    (op.name = "flush" /\ pre.state # pre.start_state) =>
       /\ pre.state \in LookaheadRows \cup ErrorOnFlush
       /\ emitted # <<>>
       /\ emitted[Len(emitted)].type = JSON_END_OF_INPUT
       /\ LET resolved == TagText(SubSeq(emitted, 1, Len(emitted) - 1))
          IN  CASE pre.state = IN_WHITESPACE -> resolved = <<>>
                [] pre.state \in LookaheadRows \ {IN_WHITESPACE} ->
                     resolved = << <<RowTag(pre.state), pre.token>> >>
                [] OTHER -> resolved = << <<JSON_ERROR, pre.token>> >>

\* "10" flushed: integer "10", then end-of-input.
C6_Witness ==
    /\ op.name = "flush"
    /\ pre.state = IN_DIGITS
    /\ pre.token = <<49, 48>>
    /\ TagText(emitted) = << <<JSON_INTEGER, <<49, 48>> >>,
                             <<JSON_END_OF_INPUT, <<>> >> >>

(***************************************************************************)
(* C7  Every flush delivers exactly one end-of-input token; it is the last *)
(* callback of the flush and its text is empty.                            *)
(***************************************************************************)
C7_EndOfInput ==
    (op.name = "flush") =>
       /\ Cardinality(WithTag(emitted, JSON_END_OF_INPUT)) = 1
       /\ emitted[Len(emitted)].type = JSON_END_OF_INPUT
       /\ emitted[Len(emitted)].text = <<>>

\* A flush inside a string: the error token, then end-of-input.
C7_Witness ==
    /\ op.name = "flush"
    /\ pre.state = IN_DQ_STRING
    /\ Len(emitted) = 2
    /\ emitted[1].type = JSON_ERROR
    /\ emitted[2].type = JSON_END_OF_INPUT

(***************************************************************************)
(* C8  Bounded token memory.  Whenever json_lexer_feed_char() returns, the *)
(* token buffer holds at most MAX_TOKEN_SIZE bytes, and at no point does   *)
(* it hold more than MAX_TOKEN_SIZE + 1.                                   *)
(***************************************************************************)
C8_BoundedToken ==
    /\ Len(lexer.token) <= MAX_TOKEN_SIZE
    /\ \A i \in DOMAIN steps :
          /\ Len(steps[i].post.token) <= MAX_TOKEN_SIZE
          /\ steps[i].peak <= MAX_TOKEN_SIZE + 1

\* A byte that took the buffer to MAX_TOKEN_SIZE + 1 bytes.
C8_Witness ==
    /\ op.name = "feed"
    /\ Len(pre.token) = MAX_TOKEN_SIZE
    /\ steps[1].peak = MAX_TOKEN_SIZE + 1
    /\ steps[1].limit
    /\ lexer.token = <<>>

LexerStates == IN_ERROR .. IN_START_INTERP

\* The last table lookup of step s: its new_state is what the loop ended on.
LastLookup(s) == s.lookups[Len(s.lookups)]

\* The byte of step s took the token buffer past the maximum.
Oversized(s) == s.peak > MAX_TOKEN_SIZE

\* The byte of step s left the token pending: it neither completed the
\* token nor was rejected.
StillPending(s) ==
    LastLookup(s).new_state \in LexerStates \ {IN_ERROR}

\* One callback carrying the whole buffer (maximum + 1 bytes) tagged with
\* the lexer's current state value, no error token; state back at
\* start_state with an empty buffer, the lexer as a freshly initialised one.
SplitAsStated(s) ==
    /\ Len(s.emitted) = 1
    /\ s.emitted[1].text = Append(s.pre.token, s.ch)
    /\ Len(s.emitted[1].text) = MAX_TOKEN_SIZE + 1
    /\ s.emitted[1].type \in LexerStates
    /\ s.emitted[1].type = LastLookup(s).new_state
    /\ WithTag(s.emitted, JSON_ERROR) = {}
    /\ s.post.state = s.post.start_state
    /\ s.post.token = <<>>
    /\ NoPosition(s.post) = Fresh(s.post)

(***************************************************************************)
(* C9  Oversized token split, as claimed.  The byte that makes a token's   *)
(* length exceed the maximum causes one callback carrying the whole        *)
(* buffer (maximum + 1 bytes) tagged with the lexer's current state value, *)
(* no error token; state returns to start_state with an empty buffer, and  *)
(* the lexer goes on as a freshly initialised one.  It fails of a byte     *)
(* that completes the token (a closing quote) or is rejected (0xFF).       *)
(***************************************************************************)
C9_AsClaimed ==
    \A i \in DOMAIN steps : Oversized(steps[i]) => SplitAsStated(steps[i])

(***************************************************************************)
(* C9  Oversized token split, as amended.  The byte that makes a token's   *)
(* length exceed the maximum and leaves the token pending causes one       *)
(* callback carrying the whole buffer (maximum + 1 bytes) tagged with the  *)
(* lexer's current state value, no error token; state returns to           *)
(* start_state with an empty buffer, and the lexer goes on as a freshly    *)
(* initialised one.                                                        *)
(***************************************************************************)
C9_OversizedSplit ==
    \A i \in DOMAIN steps :
       (Oversized(steps[i]) /\ StillPending(steps[i])) => SplitAsStated(steps[i])

\* A string that outgrows the maximum while still open.
C9_Witness ==
    /\ op.name = "feed"
    /\ pre.state = IN_DQ_STRING
    /\ Oversized(steps[1])
    /\ StillPending(steps[1])
    /\ Len(emitted) = 1
    /\ emitted[1].type = IN_DQ_STRING
    /\ Len(emitted[1].text) = MAX_TOKEN_SIZE + 1
    /\ lexer.state = lexer.start_state

(***************************************************************************)
(* C10  Every token delivered to the consumer carries a tag of the token-  *)
(* tag set (the structural tags, string, integer, float, keyword,          *)
(* interpolation, error, end-of-input); a lexer state value is never       *)
(* delivered as a tag.                                                     *)
(***************************************************************************)
C10_DefinedTags ==
    \A k \in DOMAIN emitted :
       /\ emitted[k].type \in DeliveredTags
       /\ emitted[k].type \notin LexerStates

Digits == 48 .. 57

\* [A-Za-z0-9], the bytes the INTERP row keeps accumulating.
AlphaNum == (65 .. 90) \cup (97 .. 122) \cup Digits

\* A '%' followed by bytes of [A-Za-z0-9] only.
IsPlaceholder(t) ==
    /\ t # <<>>
    /\ t[1] = 37
    /\ \A k \in 2 .. Len(t) : t[k] \in AlphaNum

(***************************************************************************)
(* C11  Interpolation switch.  With interpolation disabled, a '%' looked   *)
(* up in the start state yields an error token and no callback ever        *)
(* carries the interpolation tag.  With interpolation enabled, once '%'    *)
(* and a run of [A-Za-z0-9] bytes are pending, the next byte outside       *)
(* [A-Za-z0-9], or a flush, delivers exactly one interpolation token,      *)
(* whose text is the '%' and that run.                                     *)
(***************************************************************************)
C11_InterpolationSwitch ==
    \A i \in DOMAIN steps :
       LET s == steps[i] IN
       /\ (s.pre.start_state = IN_START) =>
            /\ WithTag(s.emitted, JSON_INTERP) = {}
            /\ \A k \in DOMAIN s.lookups :
                  (s.lookups[k].state = IN_START /\ s.lookups[k].ch = 37) =>
                     /\ s.lookups[k].new_state = IN_ERROR
                     /\ s.emitted # <<>>
                     /\ s.emitted[Len(s.emitted)].type = JSON_ERROR
       /\ (/\ s.pre.start_state = IN_START_INTERP
           /\ s.pre.state = IN_INTERP
           /\ (s.flush \/ s.ch \notin AlphaNum)) =>
            /\ IsPlaceholder(s.pre.token)
            /\ WithTag(s.emitted, JSON_INTERP) = {1}
            /\ s.emitted[1].text = s.pre.token

\* A digit after the "0" or "-0" that IN_ZERO holds.
ZeroThenDigit(s) ==
    /\ ~s.flush
    /\ s.pre.state = IN_ZERO
    /\ s.ch \in Digits

\* Whether a text begins with "0" or "-0" and a further digit.
LeadingZero(t) ==
    \/ Len(t) >= 2 /\ t[1] = 48 /\ t[2] \in Digits
    \/ Len(t) >= 3 /\ t[1] = 45 /\ t[2] = 48 /\ t[3] \in Digits

\* The callbacks of a run are one error token with the given text.
OneError(s, text) == TagText(s.emitted) = << <<JSON_ERROR, text>> >>

(***************************************************************************)
(* C12  Leading-zero rejection.  A "0" taken from the start state,         *)
(* optionally after '-', and followed by any digit 0-9 yields exactly one  *)
(* error token, and no integer token is ever delivered whose text begins   *)
(* with "0" (or "-0") followed by a digit.                                 *)
(***************************************************************************)
C12_LeadingZero ==
    /\ \A k \in DOMAIN emitted :
          emitted[k].type = JSON_INTEGER => ~LeadingZero(emitted[k].text)
    /\ \A i \in DOMAIN steps :
          LET s == steps[i] IN
          ZeroThenDigit(s) =>
            /\ s.pre.token \in {<<48>>, <<45, 48>>}
            /\ OneError(s, Append(s.pre.token, s.ch))
    /\ (lexer.state = IN_ZERO) =>
          \A d \in Digits :
             OneError(json_lexer_feed_char(lexer, d, FALSE), Append(lexer.token, d))

\* "-0" then "0": one error token "-00".
C12_Witness ==
    /\ op.name = "feed"
    /\ Len(steps) = 1
    /\ ZeroThenDigit(steps[1])
    /\ steps[1].pre.token = <<45, 48>>
    /\ TagText(emitted) = << <<JSON_ERROR, <<45, 48, 48>> >> >>
    /\ lexer.state = lexer.start_state

\* The bytes the string rows accept as content: [0x20 ... 0xFD].
StringBytes == 32 .. 253

\* The quote that opens and closes the strings of a string state, the
\* state after a backslash, and the states of either kind of string.
QuoteOf(state) ==
    IF state \in {IN_DQ_STRING, IN_DQ_STRING_ESCAPE} THEN 34 ELSE 39

EscapeOf(state) ==
    IF state = IN_DQ_STRING THEN IN_DQ_STRING_ESCAPE ELSE IN_SQ_STRING_ESCAPE

StringOf(state) ==
    IF state = IN_DQ_STRING_ESCAPE THEN IN_DQ_STRING ELSE IN_SQ_STRING

InString == {IN_DQ_STRING, IN_SQ_STRING}

InEscape == {IN_DQ_STRING_ESCAPE, IN_SQ_STRING_ESCAPE}

\* A byte fed to a pending buffer lands in it as it is: in the buffer kept,
\* or in the buffer the size check delivers.
Verbatim(s) ==
    /\ s.lookups[1].char_consumed
    /\ IF s.limit THEN s.emitted[1].text = Append(s.pre.token, s.ch)
       ELSE s.post.token = Append(s.pre.token, s.ch)

\* A run that delivers a string token.
ClosesString(s) == WithTag(s.emitted, JSON_STRING) # {}

(***************************************************************************)
(* C13  String escapes.  Inside a quoted string, the byte right after a    *)
(* backslash, whichever byte of 0x20-0xFD it is (either quote and the      *)
(* backslash included), does not close the string and is not validated:    *)
(* the table returns to the string state for all of them and the byte      *)
(* joins the buffer as it is.  A string is delivered as exactly one string *)
(* token, whose text is the opening quote, every byte fed since then as it *)
(* was fed, and the closing quote.                                         *)
(***************************************************************************)
C13_StringEscapes ==
    /\ (lexer.state \in InEscape) =>
          \A b \in StringBytes : json_lexer(lexer.state, b) = StringOf(lexer.state)
    /\ \A i \in DOMAIN steps :
          LET s == steps[i] IN
          /\ (~s.flush /\ s.pre.state \in InEscape /\ s.ch \in StringBytes) =>
                /\ Len(s.lookups) = 1
                /\ s.lookups[1].new_state = StringOf(s.pre.state)
                /\ WithTag(s.emitted, JSON_STRING) = {}
                /\ WithTag(s.emitted, JSON_ERROR) = {}
                /\ Verbatim(s)
          /\ (/\ ~s.flush
              /\ s.pre.state \in InString
              /\ s.ch \in StringBytes \ {QuoteOf(s.pre.state)}) =>
                /\ s.lookups[1].new_state \in {s.pre.state, EscapeOf(s.pre.state)}
                /\ Verbatim(s)
          /\ ClosesString(s) =>
                /\ s.pre.state \in InString
                /\ s.ch = QuoteOf(s.pre.state)
                /\ s.pre.token[1] = s.ch
                /\ TagText(s.emitted) = << <<JSON_STRING, Append(s.pre.token, s.ch)>> >>
    /\ (lexer.state \in InString \cup InEscape) =>
          /\ lexer.token # <<>>
          /\ lexer.token[1] = QuoteOf(lexer.state)

\* The string "\"" (quote, backslash, quote, quote) delivered whole.
C13_Witness ==
    /\ op.name = "feed"
    /\ op.chunk = <<34>>
    /\ pre.state = IN_DQ_STRING
    /\ TagText(emitted) = << <<JSON_STRING, <<34, 92, 34, 34>> >> >>

(***************************************************************************)
(* C14  Quote matching.  A string opened with ' is closed only by an       *)
(* unescaped ', and a string opened with " only by an unescaped ": a       *)
(* string token is delivered only on the quote that opened the string,     *)
(* looked up in the string state and not in the state after a backslash.   *)
(* The other quote, unescaped inside the string, is ordinary content, so   *)
(* that a single-quoted string holding " and a double-quoted string        *)
(* holding ' are each delivered as exactly one string token.               *)
(***************************************************************************)
C14_QuoteMatching ==
    /\ (lexer.state \in InString \cup InEscape) =>
          \A b \in Byte :
             json_lexer(lexer.state, b) = JSON_STRING
                <=> (lexer.state \in InString /\ b = QuoteOf(lexer.state))
    /\ \A i \in DOMAIN steps :
          LET s == steps[i] IN
          /\ ClosesString(s) =>
                /\ ~s.flush
                /\ Len(s.lookups) = 1
                /\ s.lookups[1].state \in InString
                /\ s.ch = QuoteOf(s.lookups[1].state)
                /\ s.pre.token[1] = s.ch
                /\ Cardinality(WithTag(s.emitted, JSON_STRING)) = 1
          /\ (/\ ~s.flush
              /\ s.pre.state \in InString
              /\ s.ch \in {34, 39} \ {QuoteOf(s.pre.state)}) =>
                /\ s.lookups[1].new_state = s.pre.state
                /\ WithTag(s.emitted, JSON_STRING) = {}
                /\ Verbatim(s)

\* The string '"' (apostrophe, quote, apostrophe) delivered whole.
C14_Witness ==
    /\ op.name = "feed"
    /\ op.chunk = <<39>>
    /\ pre.state = IN_SQ_STRING
    /\ TagText(emitted) = << <<JSON_STRING, <<39, 34, 39>> >> >>

\* The '\n' bytes of a byte sequence, and the place of the last of them
\* (0 if there is none).
Newlines(bytes) == {i \in DOMAIN bytes : bytes[i] = 10}

LastNewline(bytes) ==
    IF Newlines(bytes) = {} THEN 0
    ELSE CHOOSE i \in Newlines(bytes) : \A j \in Newlines(bytes) : j <= i

(***************************************************************************)
(* C15  Position counters.  After json_lexer_init() and any sequence of    *)
(* json_lexer_feed() calls, with no flush, the line counter equals the     *)
(* number of '\n' bytes fed and the column counter the number of bytes fed *)
(* after the last '\n' (all of them if there was none).  Each byte of a    *)
(* buffer advances the counters exactly once, however many table lookups   *)
(* and callbacks it causes, and every callback carries the values the      *)
(* counters have when it is made.                                          *)
(***************************************************************************)
C15_Position ==
    /\ lexer.y = Cardinality(Newlines(input))
    /\ lexer.x = Len(input) - LastNewline(input)
    /\ Len(steps) = Len(op.chunk)
    /\ \A i \in DOMAIN steps :
          LET s == steps[i] IN
          /\ s.ch = op.chunk[i]
          /\ IF s.ch = 10
               THEN s.post.x = 0 /\ s.post.y = s.pre.y + 1
             ELSE s.post.x = s.pre.x + 1 /\ s.post.y = s.pre.y
          /\ \A k \in DOMAIN s.emitted :
                /\ s.emitted[k].x = s.post.x
                /\ s.emitted[k].y = s.post.y

\* "\n0" then ",": the comma makes two lookups and two callbacks, both at
\* line 1, column 2.
C15_Witness ==
    /\ input = <<10, 48, 44>>
    /\ Len(steps[Len(steps)].lookups) = 2
    /\ Len(log) = 2
    /\ \A k \in DOMAIN log : log[k].x = 2 /\ log[k].y = 1
    /\ lexer.x = 2
    /\ lexer.y = 1

\* The bytes a TERMINAL() row overrides with an entry of its own.
Overrides(state) ==
    CASE state = IN_ZERO -> {46} \cup Digits
      [] state = IN_DIGITS -> {46, 101, 69} \cup Digits
      [] state = IN_MANTISSA_DIGITS -> {101, 69} \cup Digits
      [] state = IN_EXP_DIGITS -> Digits
      [] state = IN_KEYWORD -> 97 .. 122
      [] state = IN_INTERP -> AlphaNum
      [] state = IN_WHITESPACE -> WhitespaceBytes
      [] OTHER -> Byte

\* What a byte that completes the pending token by lookahead does: the
\* buffer is delivered under the row's tag without the byte (a skip
\* delivers nothing), and the byte is looked up again in start_state.
CompletesByLookahead(s) ==
    /\ Len(s.lookups) = 2
    /\ s.lookups[1].new_state = RowTag(s.pre.state)
    /\ ~s.lookups[1].char_consumed
    /\ s.lookups[2].state = s.pre.start_state
    /\ s.lookups[2].ch = s.ch
    /\ (s.pre.state # IN_WHITESPACE) =>
          /\ s.emitted # <<>>
          /\ s.emitted[1].type = RowTag(s.pre.state)
          /\ s.emitted[1].text = s.pre.token

(***************************************************************************)
(* C19  Terminal-by-default rows cover every byte.  In each of ZERO,       *)
(* DIGITS, MANTISSA_DIGITS, EXP_DIGITS, KEYWORD, INTERP and WHITESPACE,    *)
(* every byte 0x00-0xFF that the row has no entry of its own for, the      *)
(* bytes 0x80-0xFF included, completes the accumulated buffer as a token   *)
(* of the row's tag without that byte, and the byte is then looked up      *)
(* again against start_state.                                              *)
(***************************************************************************)
C19_TerminalEveryByte ==
    /\ (lexer.state \in LookaheadRows) =>
          \A b \in Byte \ Overrides(lexer.state) :
             CompletesByLookahead(json_lexer_feed_char(lexer, b, FALSE))
    /\ \A i \in DOMAIN steps :
          LET s == steps[i] IN
          (/\ ~s.flush
           /\ s.pre.state \in LookaheadRows
           /\ s.ch \notin Overrides(s.pre.state)) => CompletesByLookahead(s)

\* A byte fed by json_lexer_feed() whose run meets IN_ERROR.
ErrorOnFeed(s) == ~s.flush /\ HasErrorLookup(s)

\* The buffer a run holds when it makes its last lookup: the pending buffer
\* if that is the first lookup, empty after a completion by lookahead.
BufferAtLast(s) == IF Len(s.lookups) = 1 THEN s.pre.token ELSE <<>>

(***************************************************************************)
(* C20  Error consumes the offending byte.  When a byte fed by             *)
(* json_lexer_feed() leads to ERROR, the error token's text is the buffer  *)
(* accumulated so far with that byte appended as its last byte, so it is   *)
(* never empty; json_lexer_feed_char() returns without looking the byte up *)
(* again against start_state; and the remaining bytes of the same          *)
(* json_lexer_feed() call are still processed, starting from start_state.  *)
(***************************************************************************)
C20_ErrorConsumes ==
    /\ Len(steps) = Len(op.chunk)
    /\ \A i \in DOMAIN steps :
          LET s == steps[i] IN
          ErrorOnFeed(s) =>
            /\ LastLookup(s).new_state = IN_ERROR
            /\ LastLookup(s).char_consumed
            /\ \A k \in 1 .. Len(s.lookups) - 1 :
                  s.lookups[k].new_state # IN_ERROR
            /\ s.returned
            /\ s.emitted # <<>>
            /\ s.emitted[Len(s.emitted)].type = JSON_ERROR
            /\ s.emitted[Len(s.emitted)].text = Append(BufferAtLast(s), s.ch)
            /\ s.emitted[Len(s.emitted)].text # <<>>
            /\ (i < Len(steps)) =>
                  /\ steps[i + 1].ch = op.chunk[i + 1]
                  /\ steps[i + 1].pre = s.post
                  /\ steps[i + 1].lookups[1].state = s.pre.start_state
                  /\ steps[i + 1].pre.token = <<>>

\* The buffer 0xFF "0" fed inside a string: the error token is the pending
\* quote and 0xFF, and the zero after it is taken from start_state.
C20_Witness ==
    /\ op.name = "feed"
    /\ op.chunk = <<255, 48>>
    /\ pre.token = <<34>>
    /\ ErrorOnFeed(steps[1])
    /\ TagText(emitted) = << <<JSON_ERROR, <<34, 255>> >> >>
    /\ lexer.state = IN_ZERO
    /\ lexer.token = <<48>>

(***************************************************************************)
(* The number rule of RFC 8259, as the file's comment quotes it:           *)
(*   number = [ minus ] int [ frac ] [ exp ]                               *)
(*   int = zero / ( digit1-9 *DIGIT )                                      *)
(*   frac = decimal-point 1*DIGIT                                          *)
(*   exp = e [ minus / plus ] 1*DIGIT                                      *)
(* Each operator takes a text and a place in it and gives the place after  *)
(* the part it matches, or 0 when the part is required and missing.        *)
(***************************************************************************)
RECURSIVE AfterDigits(_, _)
AfterDigits(t, i) ==
    IF i <= Len(t) /\ t[i] \in Digits THEN AfterDigits(t, i + 1) ELSE i

AfterMinus(t) == IF t # <<>> /\ t[1] = 45 THEN 2 ELSE 1

AfterInt(t, i) ==
    IF i > Len(t) THEN 0
    ELSE IF t[i] = 48 THEN i + 1
    ELSE IF t[i] \in 49 .. 57 THEN AfterDigits(t, i + 1)
    ELSE 0

AfterFrac(t, i) ==
    IF i = 0 THEN 0
    ELSE IF i <= Len(t) /\ t[i] = 46
      THEN IF AfterDigits(t, i + 1) > i + 1 THEN AfterDigits(t, i + 1) ELSE 0
    ELSE i

AfterExpSign(t, i) ==
    IF i <= Len(t) /\ t[i] \in {45, 43} THEN i + 1 ELSE i

AfterExpDigits(t, j) ==
    IF AfterDigits(t, j) > j THEN AfterDigits(t, j) ELSE 0

AfterExp(t, i) ==
    IF i = 0 THEN 0
    ELSE IF i <= Len(t) /\ t[i] \in {101, 69}
      THEN AfterExpDigits(t, AfterExpSign(t, i + 1))
    ELSE i

IsNumber(t) ==
    AfterExp(t, AfterFrac(t, AfterInt(t, AfterMinus(t)))) = Len(t) + 1

\* Integer when the text has neither frac nor exp, float otherwise.
NumberTag(t) ==
    IF \E i \in DOMAIN t : t[i] \in {46, 101, 69} THEN JSON_FLOAT
    ELSE JSON_INTEGER

\* The bytes that delimit a number: structural characters and whitespace.
Delimiters == {123, 125, 91, 93, 58, 44} \cup WhitespaceBytes

\* The callbacks a run makes for a delimiter that follows the number t:
\* the number, and then the delimiter's own token if it is structural.
NumberThenDelimiter(out, t) ==
    /\ out # <<>>
    /\ out[1].type = NumberTag(t)
    /\ out[1].text = t
    /\ \A k \in 2 .. Len(out) : out[k].type \notin {JSON_INTEGER, JSON_FLOAT}

\* The callbacks of a flush that follows the number t.
NumberThenFlush(out, t) ==
    TagText(out) = << <<NumberTag(t), t>>, <<JSON_END_OF_INPUT, <<>> >> >>

(***************************************************************************)
(* C17  Number grammar.  Every byte string matching the RFC 8259 number    *)
(* rule, fed from the start state and followed by a flush or a delimiter,  *)
(* is delivered as exactly one token whose text is the whole string,       *)
(* tagged integer when it has neither frac nor exp and float otherwise:    *)
(* the flush or delimiter that follows the bytes fed so far, a number,     *)
(* delivers it so, and has delivered it so when it has followed.           *)
(***************************************************************************)
C17_NumberGrammar ==
    /\ (op.name # "flush" /\ IsNumber(input)) =>
          /\ log = <<>>
          /\ NumberThenFlush(json_lexer_flush(lexer).emitted, input)
          /\ \A d \in Delimiters :
                NumberThenDelimiter(json_lexer_feed_char(lexer, d, FALSE).emitted,
                                    input)
    /\ (op.name = "flush" /\ IsNumber(input)) => NumberThenFlush(log, input)
    /\ (/\ op.name = "feed"
        /\ Len(input) >= 2
        /\ input[Len(input)] \in Delimiters
        /\ IsNumber(SubSeq(input, 1, Len(input) - 1))) =>
          /\ NumberThenDelimiter(log, SubSeq(input, 1, Len(input) - 1))
          /\ Len(log) = 2

\* The token sequences a lexer is to give back: placeholders are tokens
\* only when interpolation is enabled.
Lexable(tokens) ==
    \A i \in DOMAIN tokens :
       tokens[i].type = JSON_INTERP => lexer.start_state = IN_START_INTERP

(***************************************************************************)
(* C16  Round trip.  For every sequence of valid tokens (structural        *)
(* bytes, quoted strings, integers, floats, lowercase keywords, and        *)
(* placeholders when interpolation is enabled) written out with at least   *)
(* one whitespace byte between consecutive tokens and then fed and         *)
(* flushed, the callbacks before end-of-input have exactly the tags and    *)
(* the texts of the token sequence, in its order.                          *)
(***************************************************************************)
C16_RoundTrip ==
    (op.name = "flush") =>
       \A w \in AllWritten :
          (w.text = input /\ Lexable(w.tokens)) =>
             TagText(log) = TagText(w.tokens) \o << <<JSON_END_OF_INPUT, <<>> >> >>

\* do_rt_sigreturn() has run on the frame setup_rt_frame() built, which
\* is as it was built.
ReturnedOnFrame ==
    /\ sigst.phase = "returned"
    /\ mem.built
    /\ mem.frame = sigst.built

(***************************************************************************)
(* C18  Signal transparency.  If setup_rt_frame() builds a frame and       *)
(* do_rt_sigreturn() later runs on that frame unmodified, the CPU state is *)
(* restored to its values at signal entry whatever the handler changed in  *)
(* between: pc, x1..x31, f0..f31, fcsr and, when the V extension is        *)
(* enabled, every element of env->vreg together with vstart, vxsat, vxrm,  *)
(* vl and vtype.                                                           *)
(***************************************************************************)
C18_SignalTransparency ==
    ReturnedOnFrame =>
       /\ env.pc = sigst.entry.pc
       /\ \A i \in 1 .. 31 : env.gpr[i] = sigst.entry.gpr[i]
       /\ \A i \in 0 .. 31 : env.fpr[i] = sigst.entry.fpr[i]
       /\ env.fcsr = sigst.entry.fcsr
       /\ (RVV \in sigst.entry.misa) =>
             /\ \A j \in DOMAIN env.vreg : env.vreg[j] = sigst.entry.vreg[j]
             /\ env.vstart = sigst.entry.vstart
             /\ env.vxsat = sigst.entry.vxsat
             /\ env.vxrm = sigst.entry.vxrm
             /\ env.vl = sigst.entry.vl
             /\ env.vtype = sigst.entry.vtype

\* The lookups of step s whose switch case emptied the token buffer: a
\* token case, the skip case or the error case.
ResetLookups(s) ==
    {k \in DOMAIN s.lookups :
        s.lookups[k].new_state \in JSONTokenType \cup {IN_ERROR}}

\* The byte of step s if a lookup after the k-th consumed it, as a sequence.
\* The append comes before the switch, so a byte consumed by a lookup that
\* resets the buffer went in before the reset.
ConsumedAfter(s, k) ==
    IF /\ ~s.flush
       /\ \E j \in DOMAIN s.lookups : j > k /\ s.lookups[j].char_consumed
      THEN <<s.ch>>
    ELSE <<>>

LastReset(s) == CHOOSE k \in ResetLookups(s) : \A j \in ResetLookups(s) : j <= k

\* The bytes consumed since the most recent emission, skip, error or
\* oversize reset, as step s leaves them.
SinceReset(s) ==
    IF s.limit THEN <<>>
    ELSE IF ResetLookups(s) = {} THEN s.pre.token \o ConsumedAfter(s, 0)
    ELSE ConsumedAfter(s, LastReset(s))

(***************************************************************************)
(* C21  Buffer content invariant.  Whenever json_lexer_feed_char() returns,*)
(* the token buffer is exactly the bytes consumed since the most recent    *)
(* emission, skip, error or oversize reset, in order: the buffer as it was *)
(* with the byte fed after it if nothing reset it, and otherwise the byte  *)
(* alone if it was consumed after the last reset, and nothing if not.  A   *)
(* byte that was only looked ahead at is consumed before the run returns,  *)
(* and a flush leaves the buffer empty, without its placeholder byte.      *)
(***************************************************************************)
C21_BufferContent ==
    \A i \in DOMAIN steps :
       LET s == steps[i] IN
       /\ s.post.token = SinceReset(s)
       /\ s.flush => s.post.token = <<>>
       /\ (~s.flush /\ ~s.returned) => LastLookup(s).char_consumed
       /\ \A k \in DOMAIN s.lookups :
             (k < Len(s.lookups)) => ~s.lookups[k].char_consumed

\* Whitespace pending and an 'e' fed: the skip empties the buffer and the
\* 'e', looked ahead at first, is consumed from the start state.
C21_Witness ==
    /\ op.name = "feed"
    /\ Len(steps) = 1
    /\ steps[1].pre.state = IN_WHITESPACE
    /\ steps[1].ch = 101
    /\ ResetLookups(steps[1]) = {1}
    /\ lexer.state = IN_KEYWORD
    /\ lexer.token = <<101>>

\* The start states json_lexer_init() chooses between.
StartStates == {IN_START, IN_START_INTERP}

(***************************************************************************)
(* C22  start_state is set once by json_lexer_init(), IN_START_INTERP when *)
(* interpolation is enabled and IN_START otherwise, and every feed and     *)
(* flush leaves it unchanged; every terminal emission, skip, error and     *)
(* oversize emission sets state to start_state: the next lookup of the     *)
(* same run, if there is one, starts from it, and the run returns in it    *)
(* otherwise.                                                              *)
(***************************************************************************)
C22_StartState ==
    /\ json_lexer_init(TRUE).start_state = IN_START_INTERP
    /\ json_lexer_init(FALSE).start_state = IN_START
    /\ lexer.start_state \in StartStates
    /\ lexer.start_state = pre.start_state
    /\ (op.name = "init") => lexer.state = lexer.start_state
    /\ \A i \in DOMAIN steps :
          LET s == steps[i] IN
          /\ s.post.start_state = s.pre.start_state
          /\ \A k \in ResetLookups(s) :
                IF k < Len(s.lookups)
                  THEN s.lookups[k + 1].state = s.pre.start_state
                ELSE s.post.state = s.pre.start_state
          /\ s.limit => s.post.state = s.pre.start_state

\* A comma fed to a lexer with interpolation enabled: the token case sets
\* state back to IN_START_INTERP.
C22_Witness ==
    /\ op.name = "feed"
    /\ Len(steps) = 1
    /\ pre.start_state = IN_START_INTERP
    /\ TagText(emitted) = << <<JSON_COMMA, <<44>> >> >>
    /\ lexer.state = IN_START_INTERP
    /\ lexer.start_state = IN_START_INTERP

\* assert(lexer->state <= ARRAY_SIZE(json_lexer)) at the top of the loop.
feed_char_assert(state) == state <= ARRAY_SIZE_json_lexer

\* The rows of the table a lookup may use: every row but that of IN_ERROR.
LookupRows == (IN_ERROR + 1) .. (ARRAY_SIZE_json_lexer - 1)

(***************************************************************************)
(* C23  In every reachable state, and at every table lookup, lexer->state  *)
(* is a valid row index of json_lexer[][256], strictly less than the       *)
(* number of rows, and is neither IN_ERROR nor a token tag; so the         *)
(* assertion at the top of the driver loop never fails.                    *)
(***************************************************************************)
C23_ValidState ==
    /\ lexer.state \in LookupRows
    /\ lexer.state \notin JSONTokenType
    /\ \A i \in DOMAIN steps :
          /\ steps[i].post.state \in LookupRows
          /\ \A k \in DOMAIN steps[i].lookups :
                LET state == steps[i].lookups[k].state IN
                /\ state < ARRAY_SIZE_json_lexer
                /\ state # IN_ERROR
                /\ state \notin JSONTokenType
                /\ feed_char_assert(state)

\* Digits pending and a comma fed: the integer completes by lookahead and
\* the comma is looked up from the start state, two lookups in one run.
C23_Witness ==
    /\ op.name = "feed"
    /\ Len(steps) = 1
    /\ Len(steps[1].lookups) = 2
    /\ steps[1].lookups[1].state = IN_DIGITS
    /\ steps[1].lookups[1].new_state = JSON_INTEGER
    /\ steps[1].lookups[2].state \in StartStates
    /\ steps[1].lookups[2].new_state = JSON_COMMA
    /\ lexer.state \in StartStates

\* No cell of the table holds IN_START or IN_START_INTERP.
NoCellLeadsToStart ==
    \A state \in LookupRows :
       \A ch \in Byte : json_lexer(state, ch) \notin StartStates

(***************************************************************************)
(* C24  Start states are entry points only.  In every reachable state,     *)
(* state is IN_START or IN_START_INTERP only if it equals start_state, and *)
(* no table entry leads to either; state == IN_INTERP is reached only in   *)
(* an instance initialised with interpolation enabled.                     *)
(***************************************************************************)
C24_EntryPoints ==
    /\ (lexer.state \in StartStates) => lexer.state = lexer.start_state
    /\ (lexer.state = IN_INTERP) => lexer.start_state = IN_START_INTERP
    /\ NoCellLeadsToStart
    /\ \A i \in DOMAIN steps :
          \A k \in DOMAIN steps[i].lookups :
             LET look == steps[i].lookups[k] IN
             /\ (look.state \in StartStates) =>
                   look.state = steps[i].pre.start_state
             /\ look.new_state \notin StartStates
             /\ (look.state = IN_INTERP \/ look.new_state = IN_INTERP) =>
                   steps[i].pre.start_state = IN_START_INTERP

\* A '%' fed to a lexer with interpolation enabled.
C24_Witness ==
    /\ op.name = "feed"
    /\ op.chunk = <<37>>
    /\ pre.state = IN_START_INTERP
    /\ lexer.state = IN_INTERP
    /\ lexer.start_state = IN_START_INTERP

\* The bytes the string rows leave unset: below 0x20, and 0xFE and 0xFF.
RejectedInString == (0 .. 31) \cup {254, 255}

(***************************************************************************)
(* C25  String byte ranges.  In each of the four string states             *)
(* (IN_DQ_STRING, IN_DQ_STRING_ESCAPE, IN_SQ_STRING, IN_SQ_STRING_ESCAPE)  *)
(* every byte below 0x20 and the bytes 0xFE and 0xFF yield an error token, *)
(* and every byte in 0x20-0xFD is accepted without error: the lookup stays *)
(* in or returns to the string state, enters the escape state, or closes   *)
(* the string.                                                             *)
(***************************************************************************)
C25_StringByteRanges ==
    \A i \in DOMAIN steps :
       LET s == steps[i] IN
       (~s.flush /\ s.pre.state \in InString \cup InEscape) =>
          /\ s.ch \in Byte
          /\ Len(s.lookups) = 1
          /\ (s.ch \in RejectedInString) =>
                /\ s.lookups[1].new_state = IN_ERROR
                /\ OneError(s, Append(s.pre.token, s.ch))
          /\ (s.ch \in StringBytes) =>
                /\ WithTag(s.emitted, JSON_ERROR) = {}
                /\ s.lookups[1].new_state =
                      IF s.pre.state \in InEscape THEN StringOf(s.pre.state)
                      ELSE IF s.ch = QuoteOf(s.pre.state) THEN JSON_STRING
                      ELSE IF s.ch = 92 THEN EscapeOf(s.pre.state)
                      ELSE s.pre.state

\* 0xFE after the backslash of a single-quoted string: one error token.
C25_Witness ==
    /\ input = <<39, 92, 254>>
    /\ op.name = "feed"
    /\ pre.state = IN_SQ_STRING_ESCAPE
    /\ TagText(emitted) = << <<JSON_ERROR, <<39, 92, 254>> >> >>
    /\ lexer.state = lexer.start_state

\* An optional '-', then "0" or a digit 1-9 and any digits.
IsIntegerText(t) == IsNumber(t) /\ NumberTag(t) = JSON_INTEGER

\* The same, then an optional fraction ('.' and one digit or more) and an
\* optional exponent ('e' or 'E', an optional sign, one digit or more),
\* with the fraction or the exponent present.
IsFloatText(t) == IsNumber(t) /\ NumberTag(t) = JSON_FLOAT

\* The text a number row holds while it is pending: a number for the rows
\* that complete, and a number short of one digit for the rows that do not.
PendingNumber(state, t) ==
    CASE state \in {IN_ZERO, IN_DIGITS} -> IsIntegerText(t)
      [] state \in {IN_MANTISSA_DIGITS, IN_EXP_DIGITS} -> IsFloatText(t)
      [] state = IN_SIGN -> t = <<45>>
      [] state = IN_MANTISSA ->
            t[Len(t)] = 46 /\ IsFloatText(Append(t, 48))
      [] state = IN_EXP_E ->
            t[Len(t)] \in {101, 69} /\ IsFloatText(Append(t, 48))
      [] state = IN_EXP_SIGN ->
            t[Len(t)] \in {45, 43} /\ IsFloatText(Append(t, 48))
      [] OTHER -> TRUE

(***************************************************************************)
(* C26  Number shape soundness.  Every token delivered with the integer    *)
(* tag has as text an optional '-' and then "0" or a digit 1-9 followed by *)
(* any digits; every token delivered with the float tag has as text such   *)
(* an integer, then an optional fraction ('.' and at least one digit) and  *)
(* an optional exponent ('e' or 'E', an optional sign, at least one        *)
(* digit), with at least one of the fraction and exponent parts present;   *)
(* whatever was fed and whether the token was completed by lookahead or by *)
(* flush.  While a number is pending the buffer is a text of the shape its *)
(* state stands for.                                                       *)
(***************************************************************************)
C26_NumberShape ==
    /\ \A k \in DOMAIN log :
          /\ (log[k].type = JSON_INTEGER) => IsIntegerText(log[k].text)
          /\ (log[k].type = JSON_FLOAT) => IsFloatText(log[k].text)
    /\ lexer.token # <<>> => PendingNumber(lexer.state, lexer.token)

\* "1.1" completed by a flush.
C26_Witness ==
    /\ input = <<49, 46, 49>>
    /\ op.name = "flush"
    /\ pre.state = IN_MANTISSA_DIGITS
    /\ TagText(log) = << <<JSON_FLOAT, <<49, 46, 49>> >>,
                         <<JSON_END_OF_INPUT, <<>> >> >>

\* The number rows without a TERMINAL() default.
IncompleteRows == {IN_SIGN, IN_MANTISSA, IN_EXP_E, IN_EXP_SIGN}

\* The bytes that take a number on from an incomplete row.
ContinuesNumber(state) ==
    IF state = IN_EXP_E THEN Digits \cup {45, 43} ELSE Digits

(***************************************************************************)
(* C27  Incomplete number prefixes never complete.  IN_SIGN, IN_MANTISSA,  *)
(* IN_EXP_E and IN_EXP_SIGN have no terminal transition, so a '-' not      *)
(* followed by a digit, a '.' not followed by a digit, an 'e' or 'E' not   *)
(* followed by a digit or sign, and an exponent sign not followed by a     *)
(* digit each yield an error token, on the next byte or on flush, and no   *)
(* integer or float token ever has text ending in '-', '+', '.', 'e' or    *)
(* 'E'.                                                                    *)
(***************************************************************************)
C27_IncompletePrefixes ==
    /\ (lexer.state \in IncompleteRows) =>
          \A ch \in Byte : json_lexer(lexer.state, ch) \notin JSONTokenType
    /\ \A i \in DOMAIN steps :
          LET s == steps[i] IN
          (s.pre.state \in IncompleteRows) =>
             /\ s.flush => OneError(s, s.pre.token)
             /\ (~s.flush /\ s.ch \notin ContinuesNumber(s.pre.state)) =>
                   OneError(s, Append(s.pre.token, s.ch))
             /\ (~s.flush /\ s.ch \in ContinuesNumber(s.pre.state)) =>
                   WithTag(s.emitted, JSON_ERROR) = {}
    /\ \A k \in DOMAIN log :
          (log[k].type \in {JSON_INTEGER, JSON_FLOAT}) =>
             /\ log[k].text # <<>>
             /\ log[k].text[Len(log[k].text)] \notin {45, 43, 46, 101, 69}

\* "1e+" flushed: one error token, then end of input.
C27_Witness ==
    /\ input = <<49, 101, 43>>
    /\ op.name = "flush"
    /\ pre.state = IN_EXP_SIGN
    /\ TagText(log) = << <<JSON_ERROR, <<49, 101, 43>> >>,
                         <<JSON_END_OF_INPUT, <<>> >> >>

\* The structural bytes:  {  }  [  ]  ,  :
StructuralBytes == {123, 125, 91, 93, 44, 58}

\* A structural byte fed while state == start_state.
StructuralAtStart(s) ==
    /\ ~s.flush
    /\ s.pre.state = s.pre.start_state
    /\ s.ch \in StructuralBytes

(***************************************************************************)
(* C28  Structural bytes.  Each of '{', '}', '[', ']', ',' and ':' fed     *)
(* while state == start_state delivers, within that same                   *)
(* json_lexer_feed_char() run and without waiting for a following byte,    *)
(* exactly one token with the corresponding tag whose text is that single  *)
(* byte, and leaves state == start_state with an empty buffer.             *)
(***************************************************************************)
C28_StructuralBytes ==
    \A i \in DOMAIN steps :
       LET s == steps[i] IN
       StructuralAtStart(s) =>
          /\ Len(s.lookups) = 1
          /\ s.lookups[1].char_consumed
          /\ Len(s.emitted) = 1
          /\ s.emitted[1].text = <<s.ch>>
          /\ Token(s.emitted[1].type, s.emitted[1].text) \in StructuralTokens
          /\ s.post.state = s.post.start_state
          /\ s.post.token = <<>>

\* A ':' as the first byte: one colon token.
C28_Witness ==
    /\ input = <<58>>
    /\ op.name = "feed"
    /\ StructuralAtStart(steps[1])
    /\ TagText(emitted) = << <<JSON_COLON, <<58>> >> >>
    /\ lexer.state = lexer.start_state
    /\ lexer.token = <<>>

\* The lowercase letters a-z.
LowerCase == 97 .. 122

\* The last call delivered a keyword token; a keyword completes by lookahead
\* or by flush only, so it is the call's first callback.
DeliversKeyword == emitted # <<>> /\ emitted[1].type = JSON_KEYWORD

\* Where in the input the text of that keyword ends: at the last byte for a
\* flush, before the byte looked ahead at for a feed; and where the byte
\* before the text is.
KeywordEnd == IF op.name = "flush" THEN Len(input) ELSE Len(input) - 1

KeywordLeft(t) == KeywordEnd - Len(t)

\* t is a non-empty run of a-z of the input, ended by a byte that is not
\* a-z or by the flush.
RunEndedRight(t) ==
    /\ t # <<>>
    /\ \A i \in DOMAIN t : t[i] \in LowerCase
    /\ KeywordLeft(t) >= 0
    /\ t = SubSeq(input, KeywordLeft(t) + 1, KeywordEnd)
    /\ op.name = "flush" \/ input[Len(input)] \notin LowerCase

\* No a-z byte comes right before the text in the input.
RunBegunLeft(t) ==
    KeywordLeft(t) >= 1 => input[KeywordLeft(t)] \notin LowerCase

\* The callback delivered right before the keyword is an error token or an
\* oversize callback, and its text ends in an a-z byte.
AfterConsumedLetter ==
    LET k == Len(log) - Len(emitted) + 1 IN
    /\ k > 1
    /\ log[k - 1].type \in {JSON_ERROR} \cup LexerStates
    /\ log[k - 1].text # <<>>
    /\ log[k - 1].text[Len(log[k - 1].text)] \in LowerCase

\* Only the first callback of a call can be a keyword.
KeywordFirst == \A k \in WithTag(emitted, JSON_KEYWORD) : k = 1

(***************************************************************************)
(* C29  Keywords, as claimed.  Every token delivered with the keyword tag  *)
(* has as text a non-empty maximal run of lowercase letters a-z from the   *)
(* input (it is ended only by a byte that is not a-z, or by flush), and    *)
(* the lexer delivers it whether or not the text is true, false or null.   *)
(* It fails of "-ee,": the error token takes "-e" and the keyword is the   *)
(* second 'e' alone.                                                       *)
(***************************************************************************)
C29_AsClaimed ==
    /\ KeywordFirst
    /\ DeliversKeyword =>
          /\ RunEndedRight(emitted[1].text)
          /\ RunBegunLeft(emitted[1].text)

(***************************************************************************)
(* C29  Keywords, as amended.  Every token delivered with the keyword tag  *)
(* has as text a non-empty run of lowercase letters a-z from the input     *)
(* that is ended only by a byte that is not a-z, or by flush, and that     *)
(* begins after a byte that is not a-z or after an a-z byte consumed by    *)
(* the error token or oversize callback delivered just before it; and the  *)
(* lexer delivers it whether or not the text is true, false or null.       *)
(***************************************************************************)
C29_Keywords ==
    /\ KeywordFirst
    /\ DeliversKeyword =>
          /\ RunEndedRight(emitted[1].text)
          /\ RunBegunLeft(emitted[1].text) \/ AfterConsumedLetter
    /\ (lexer.state = IN_KEYWORD /\ op.name # "flush") =>
          /\ \A i \in DOMAIN lexer.token : lexer.token[i] \in LowerCase
          /\ TagText(json_lexer_flush(lexer).emitted) =
                << <<JSON_KEYWORD, lexer.token>>, <<JSON_END_OF_INPUT, <<>> >> >>

\* "-ee,": the error token "-e", then the keyword "e" and the comma.
C29_Witness ==
    /\ input = <<45, 101, 101, 44>>
    /\ op.name = "feed"
    /\ DeliversKeyword
    /\ ~RunBegunLeft(emitted[1].text)
    /\ TagText(log) = << <<JSON_ERROR, <<45, 101>> >>,
                         <<JSON_KEYWORD, <<101>> >>, <<JSON_COMMA, <<44>> >> >>

\* Every callback of a sequence carries the position of lexer l.
AllAt(out, l) == \A k \in DOMAIN out : out[k].x = l.x /\ out[k].y = l.y

(***************************************************************************)
(* C30  Flush and position.  A flush that finds state != start_state       *)
(* advances the column by exactly one for the placeholder byte, the line   *)
(* unchanged, before it resolves the pending token; a flush that finds     *)
(* state == start_state leaves column and line unchanged; and the end-of-  *)
(* input token carries the resulting position.                             *)
(***************************************************************************)
C30_FlushPosition ==
    (op.name = "flush") =>
       /\ IF pre.state # pre.start_state
            THEN /\ lexer.x = pre.x + 1
                 /\ lexer.y = pre.y
                 /\ Len(steps) = 1
                 /\ steps[1].ch = 0
                 /\ emitted = Append(steps[1].emitted, emitted[Len(emitted)])
          ELSE /\ lexer.x = pre.x
               /\ lexer.y = pre.y
               /\ steps = <<>>
               /\ Len(emitted) = 1
       /\ AllAt(emitted, lexer)
       /\ emitted[Len(emitted)].type = JSON_END_OF_INPUT

\* "1" at column 1 flushed: the integer and the end of input at column 2.
C30_Witness ==
    /\ op.name = "flush"
    /\ pre.state = IN_DIGITS
    /\ pre.x = 1
    /\ pre.y = 0
    /\ lexer.x = 2
    /\ lexer.y = 0
    /\ emitted = <<[type |-> JSON_INTEGER, text |-> <<49>>, x |-> 2, y |-> 0],
                   [type |-> JSON_END_OF_INPUT, text |-> <<>>, x |-> 2, y |-> 0]>>

\* What the events logged deliver when made on a lexer initialised with
\* interpolation disabled.
DisabledLog == Replay([lexer |-> json_lexer_init(FALSE), log |-> <<>>], input, 1).log

(***************************************************************************)
(* C31  The two start states differ only on '%'.  For every input on which *)
(* the interpolation-disabled lexer emits no error token, the              *)
(* interpolation-enabled lexer fed the same bytes, and flushed at the same *)
(* points, emits exactly the same sequence of tags, texts and positions.   *)
(***************************************************************************)
C31_StartStatesAgree ==
    (/\ lexer.start_state = IN_START_INTERP
     /\ WithTag(DisabledLog, JSON_ERROR) = {}) => log = DisabledLog

\* A '%' inside a string, then a flush: both lexers deliver the string and
\* the end of input.
C31_Witness ==
    /\ lexer.start_state = IN_START_INTERP
    /\ input = <<34, 37, 34, FlushEvent>>
    /\ WithTag(DisabledLog, JSON_ERROR) = {}
    /\ TagText(log) = << <<JSON_STRING, <<34, 37, 34>> >>,
                         <<JSON_END_OF_INPUT, <<>> >> >>

\* The texts of the callbacks of a sequence from the k-th on, one after the
\* other.
RECURSIVE Texts(_, _)
Texts(out, k) ==
    IF k > Len(out) THEN <<>> ELSE out[k].text \o Texts(out, k + 1)

\* The bytes i .. j - 1 of the input are whitespace.
WhitespaceRun(i, j) == \A n \in i .. (j - 1) : input[n] \in WhitespaceBytes

\* The input from byte i on is, in order, the texts of the callbacks from
\* the k-th on and then the token buffer, with runs of whitespace, the skips,
\* between them.
RECURSIVE Accounted(_, _)
Accounted(i, k) ==
    \E j \in i .. (Len(input) + 1) :
       /\ WhitespaceRun(i, j)
       /\ IF k > Len(log)
            THEN SubSeq(input, j, Len(input)) = lexer.token
          ELSE /\ j + Len(log[k].text) <= Len(input) + 1
               /\ SubSeq(input, j, j + Len(log[k].text) - 1) = log[k].text
               /\ Accounted(j + Len(log[k].text), k + 1)

\* The whitespace run a json_lexer_feed_char() run discarded: the skip
\* completes by lookahead, so it is the buffer the run found.
Skipped(s) ==
    IF \E k \in DOMAIN s.lookups : s.lookups[k].new_state = JSON_SKIP
      THEN s.pre.token
    ELSE <<>>

\* The byte of a run as a sequence; a flush feeds none.
FedByte(s) == IF s.flush THEN <<>> ELSE <<s.ch>>

(***************************************************************************)
(* C32  No byte is lost or duplicated.  After any sequence of feed calls   *)
(* the input fed so far is the in-order concatenation of the texts of all  *)
(* tokens delivered to the consumer (error and oversize tokens included),  *)
(* the whitespace runs discarded as skip, and the current token buffer;    *)
(* run by run, the buffer found and the byte fed are what the run skipped, *)
(* delivered and left in the buffer; and every fed byte is appended to the *)
(* buffer exactly once.                                                    *)
(***************************************************************************)
C32_NoByteLost ==
    /\ Accounted(1, 1)
    /\ \A i \in DOMAIN steps :
          LET s == steps[i] IN
          /\ s.pre.token \o FedByte(s) =
                Skipped(s) \o Texts(s.emitted, 1) \o s.post.token
          /\ ~s.flush =>
                Cardinality({k \in DOMAIN s.lookups :
                               s.lookups[k].char_consumed}) = 1

\* " 0," fed and then a quote: the space skipped, the integer and the
\* comma delivered, the quote in the buffer.
C32_Witness ==
    /\ input = <<32, 48, 44, 34>>
    /\ TagText(log) = << <<JSON_INTEGER, <<48>> >>, <<JSON_COMMA, <<44>> >> >>
    /\ lexer.token = <<34>>

\* Lexer l is in its start state exactly when its token buffer is empty.
StartIffEmpty(l) == (l.state = l.start_state) <=> (l.token = <<>>)

(***************************************************************************)
(* C33  Whenever json_lexer_feed_char() or json_lexer_flush() returns,     *)
(* state == start_state if and only if the token buffer is empty.          *)
(***************************************************************************)
C33_StartIffEmpty ==
    /\ StartIffEmpty(lexer)
    /\ \A i \in DOMAIN steps :
          /\ StartIffEmpty(steps[i].pre)
          /\ StartIffEmpty(steps[i].post)

\* A byte rejected in a pending string: the error case empties the buffer
\* and goes back to the start state.
C33_Witness ==
    /\ op.name = "feed"
    /\ Len(steps) = 1
    /\ steps[1].pre.state = IN_DQ_STRING
    /\ steps[1].pre.token # <<>>
    /\ steps[1].returned
    /\ lexer.state = lexer.start_state
    /\ lexer.token = <<>>

(***************************************************************************)
(* C34  json_lexer_feed_char() always terminates.  For every state and     *)
(* byte the driver loop makes at most two table lookups: a lookahead       *)
(* terminal is followed by a consuming transition, because no start-state  *)
(* entry is a lookahead terminal; it delivers at most two callbacks, and a *)
(* flush delivers at most two callbacks.                                   *)
(***************************************************************************)
C34_Terminates ==
    /\ (lexer.state = lexer.start_state) =>
          \A ch \in Byte :
             ~TERMINAL_NEEDED_LOOKAHEAD(lexer.state, json_lexer(lexer.state, ch))
    /\ \A i \in DOMAIN steps :
          LET s == steps[i] IN
          /\ Len(s.lookups) \in {1, 2}
          /\ Len(s.emitted) <= 2
          /\ (Len(s.lookups) = 2) =>
                /\ ~s.flush
                /\ ~s.lookups[1].char_consumed
                /\ s.lookups[2].state = s.pre.start_state
                /\ s.lookups[2].char_consumed
    /\ (op.name = "flush") => Len(steps) <= 1 /\ Len(emitted) <= 2

\* "1" and then ",": two lookups and two callbacks in one run.
C34_Witness ==
    /\ input = <<49, 44>>
    /\ op.name = "feed"
    /\ op.chunk = <<44>>
    /\ Len(steps[1].lookups) = 2
    /\ Len(steps[1].emitted) = 2

\* The buffers fed after a flush: each of the bytes of InputBytes alone, and
\* each of the prefixes that take a lexer into a row of the table.
AfterFlushBuffers == {<<ch>> : ch \in InputBytes} \cup Prefixes

\* What a json_lexer_feed() call with result c delivered and left,
\* positions aside.
Tokenised(c) == [out |-> TagText(c.emitted), lexer |-> NoPosition(c.lexer)]

(***************************************************************************)
(* C35  Flush leaves a clean lexer.  After json_lexer_flush() returns,     *)
(* from any reachable state, state == start_state and the token buffer is  *)
(* empty; hence a second flush right after delivers only an end-of-input   *)
(* token and changes no lexer field, and bytes fed after a flush are       *)
(* tokenised exactly as by a freshly initialised lexer with the same       *)
(* interpolation setting, positions aside.                                 *)
(***************************************************************************)
C35_FlushLeavesClean ==
    (op.name = "flush") =>
       /\ lexer.state = lexer.start_state
       /\ lexer.token = <<>>
       /\ json_lexer_flush(lexer).lexer = lexer
       /\ json_lexer_flush(lexer).steps = <<>>
       /\ TagText(json_lexer_flush(lexer).emitted) =
             << <<JSON_END_OF_INPUT, <<>> >> >>
       /\ \A buffer \in AfterFlushBuffers :
             Tokenised(json_lexer_feed(lexer, buffer)) =
                Tokenised(json_lexer_feed(Fresh(lexer), buffer))

\* A pending keyword flushed.
C35_Witness ==
    /\ input = <<97>>
    /\ op.name = "flush"
    /\ pre.state = IN_KEYWORD
    /\ TagText(emitted) = << <<JSON_KEYWORD, pre.token>>,
                             <<JSON_END_OF_INPUT, <<>> >> >>
    /\ lexer.state = lexer.start_state
    /\ lexer.token = <<>>
    /\ lexer.x > 0


(***************************************************************************)
(* C36: position of lookahead-completed tokens.  A token completed by a    *)
(* lookahead transition during a feed is the text pending before the byte, *)
(* whose last byte is the byte fed before at (pre.x, pre.y), and it is     *)
(* reported with the position of the lookahead byte: column pre.x + 1 on   *)
(* the same line, or (column 0, line pre.y + 1) when the lookahead byte is *)
(* '\n'.  A token completed by a consumed byte ends with that byte and is  *)
(* reported with the position of that byte.                                *)
(***************************************************************************)
\* The lookup delivers a token: its new_state is one of the token cases.
CompletesToken(lookup) == lookup.new_state \in feed_char_token_cases

\* The lookups of s up to the k-th that deliver a callback.
Delivering(s, k) ==
    {j \in 1 .. k : \/ CompletesToken(s.lookups[j])
                    \/ s.lookups[j].new_state = IN_ERROR}

\* The callback the k-th lookup of s delivered.
CallbackOf(s, k) == s.emitted[Cardinality(Delivering(s, k))]

\* The callback t is reported at column x of line y.
ReportedAt(t, x, y) == t.x = x /\ t.y = y

\* The callback t is reported with the position of the byte ch fed to l.
AtByte(t, l, ch) ==
    IF ch = 10 THEN ReportedAt(t, 0, l.y + 1) ELSE ReportedAt(t, l.x + 1, l.y)

\* The k-th lookup of the feed run s reports its token as the claim says.
TokenPosition(s, k, t) ==
    /\ t.type = s.lookups[k].new_state
    /\ AtByte(t, s.pre, s.ch)
    /\ IF s.lookups[k].char_consumed
         THEN /\ t.text # <<>>
              /\ t.text[Len(t.text)] = s.ch
              /\ Len(t.text) > 1 => SubSeq(t.text, 1, Len(t.text) - 1) = s.pre.token
       ELSE /\ k = 1
            /\ t.text = s.pre.token
            /\ t.text # <<>>
            /\ s.ch # 10 => t.x = s.pre.x + 1 /\ t.y = s.pre.y
            /\ s.ch = 10 => t.x = 0 /\ t.y = s.pre.y + 1

C36_LookaheadPosition ==
    (op.name = "feed") =>
       \A i \in 1 .. Len(steps) :
          \A k \in 1 .. Len(steps[i].lookups) :
             CompletesToken(steps[i].lookups[k]) =>
                TokenPosition(steps[i], k, CallbackOf(steps[i], k))

\* "1" at column 1, then ',': the integer is reported at column 2, the
\* column of the ',', and so is the comma the ',' completes.
C36_Witness ==
    /\ op.name = "feed"
    /\ Len(steps) = 1
    /\ pre.x = 1
    /\ pre.y = 0
    /\ pre.token = <<49>>
    /\ steps[1].ch = 44
    /\ Len(steps[1].lookups) = 2
    /\ ~steps[1].lookups[1].char_consumed
    /\ steps[1].lookups[2].char_consumed
    /\ emitted = <<[type |-> JSON_INTEGER, text |-> <<49>>, x |-> 2, y |-> 0],
                   [type |-> JSON_COMMA, text |-> <<44>>, x |-> 2, y |-> 0]>>


(***************************************************************************)
(* C37: signal frame failure.  When setup_rt_frame() cannot lock the frame *)
(* address for writing, the -1 address get_sigframe() returns on an        *)
(* overflow of the alternate signal stack included, no CPU register is     *)
(* changed (pc, sp, a0, a1, a2, ra keep their values), SIGSEGV is forced,  *)
(* and the handler is reset to the default action only if the signal       *)
(* being delivered is SIGSEGV.  A delivery whose frame could be locked     *)
(* forces nothing.                                                         *)
(***************************************************************************)
\* The frame address setup_rt_frame() computed for the delivery.
DeliveryFrame ==
    get_sigframe(ts, ts.ka, sigst.entry, sizeof_target_rt_sigframe)

\* The frame address of the delivery could be locked.
DeliveryLocked == lock_user_struct(DeliveryFrame, sizeof_target_rt_sigframe)

\* setup_rt_frame() has failed: the process is killed with no frame written.
SetupFailed == sigst.phase = "killed" /\ ~mem.built

\* The handler as installed before the delivery.
InstalledHandler == IdleTask(ts.sigaltstack_used).ka.sa_handler

C37_FrameFailure ==
    /\ SetupFailed =>
          /\ ~DeliveryLocked
          /\ env = sigst.entry
          /\ env.pc = sigst.entry.pc
          /\ \A i \in {xSP, xA0, xA1, xA2, xRA} : env.gpr[i] = sigst.entry.gpr[i]
          /\ mem = NoFrame
          /\ ts.forced = <<TARGET_SIGSEGV>>
          /\ ts.ka.sa_handler =
                IF sigst.sig = TARGET_SIGSEGV THEN TARGET_SIG_DFL
                ELSE InstalledHandler
          /\ InstalledHandler # TARGET_SIG_DFL
    /\ (sigst.phase = "handler") =>
          /\ DeliveryLocked
          /\ ts.forced = <<>>
          /\ ts.ka.sa_handler = InstalledHandler
    /\ (sigst.phase = "user") => ts.forced = <<>>

\* SIGUSR1 taken on the alternate stack with no room for the frame:
\* get_sigframe() returns -1, SIGSEGV is forced, the handler stays.
C37_Witness ==
    /\ SetupFailed
    /\ sigst.sig = TARGET_SIGUSR1
    /\ on_sig_stack(ts, sigst.entry.gpr[xSP])
    /\ DeliveryFrame = abi_ulong(-1)
    /\ env = sigst.entry
    /\ ts.forced = <<TARGET_SIGSEGV>>
    /\ ts.ka.sa_handler = InstalledHandler

====
